---- MODULE Spec2Model ----
(***************************************************************************)
(* Virtuozzo Storage provisioner (virtuozzo-provisioner.go): Provision and *)
(* Delete of ploop volumes on a mounted vstorage cluster, with a finalizer *)
(* token recorded on the credentials secret.                               *)
(*                                                                         *)
(* One secret (one cluster) is modelled.  A claim is identified by its UID *)
(* (1 or 2); the volume ID is "kubernetes-dynamic-pvc-<UID>", so a     *)
(* claim number also names the volume path mount/volumePath/volumeID.      *)
(* A finalizer token "virtuozzo.com/<uuid>-pv" is a number: the n-th UUID  *)
(* drawn by uuid.NewUUID().                                                *)
(*                                                                         *)
(* A call is cut into steps at its remote calls (secret Get, mount, volume *)
(* create/remove, secret Patch), so that calls of different workers        *)
(* interleave the way goroutines of the controller do.                     *)
(*                                                                         *)
(* Spec runs the calls one after the other with every failure of the       *)
(* external calls; SpecConc interleaves the calls of two workers; SpecPd   *)
(* is the provisioner of vzstorage-pd, which unmounts as a call returns;   *)
(* SpecSize applies createPloop to option maps drawn from a bounded set.   *)
(* SpecUUID lets uuid.NewUUID() repeat a value; SpecRestarted starts from   *)
(* a restarted provisioner (a PV exists, nothing is mounted); SpecParams   *)
(* gives the storage class further parameters; SpecVs is the provisioner   *)
(* of virtuozzo-storage, which has no secret and no mount of its own, and  *)
(* draws its identity anew at every start.  SpecPath and SpecPdPath follow *)
(* the paths of the volumes as path.Join and string concatenation build    *)
(* them; SpecP2 is the earlier provisioner of part_002, which keeps every  *)
(* parameter in the options of the PV; SpecFlex is the flexvolume driver   *)
(* (part_004), whose Mount and Unmount act on the ploop devices of a node. *)
(***************************************************************************)
EXTENDS Integers, Sequences, FiniteSets, TLC

\* ---- bounds ----
\* tokens that reach the secret, and vzs* attribute keys in a storage class
MaxTokens == 3
MaxAttrs == 1

\* two claims, so that tokens of two volumes share the secret
Claims == {1, 2}
Workers == {"w1", "w2"}
\* the worker of the serial specification, where calls run one after the other
Serial == {"w1"}

\* capacities a claim requests, in bytes; 0: the claim requests no storage
Gibibyte == 1024 * 1024 * 1024
Capacities == {0, Gibibyte}

\* *provisionerID and the values the owner annotation of a PV can take
provisionerID == "us"
Owners == {"us", "other", "none"}

VARIABLES
  finalizers,   \* secret.ObjectMeta.Finalizers as stored by the API server
  vols,         \* claims whose ploop volume directory (ploopPath) exists
  images,       \* claims whose delta image (deltaPath) exists
  mounts,       \* number of mounts stacked on mountDir+clusterName
  tokClaim,     \* tokClaim[t]: the claim whose Provision drew token t
  handle,       \* handle[c]: the PV last returned by Provision for claim c
  calls,        \* calls[w]: the call worker w is executing, or its result
  identity,     \* the identity of the running provisioner process
  ploop         \* ploop[v]: the ploop device of volume v on the driver's node

vars == <<finalizers, vols, images, mounts, tokClaim, handle, calls, identity, ploop>>

\* ---- sequences ----
Range(s) == {s[i] : i \in 1 .. Len(s)}
Count(x, s) == Cardinality({i \in 1 .. Len(s) : s[i] = x})
RemoveAt(s, i) == SubSeq(s, 1, i - 1) \o SubSeq(s, i + 1, Len(s))
\* index of the first occurrence of x in s, 0 when absent (idx == -1 in the code)
IndexOf(x, s) ==
  IF x \in Range(s) THEN CHOOSE i \in 1 .. Len(s) : s[i] = x /\ \A j \in 1 .. i - 1 : s[j] # x
  ELSE 0

\* ---- strategic merge patch of a list of scalars with patchStrategy "merge" ----
RECURSIVE sortScalars(_)
sortScalars(s) ==
  IF s = <<>> THEN <<>>
  ELSE LET m == CHOOSE x \in Range(s) : \A y \in Range(s) : x <= y
       IN <<m>> \o sortScalars(RemoveAt(s, IndexOf(m, s)))

\* two-index walk over the sorted lists: an element only in the original is a
\* deletion, an element only in the modified list an addition
RECURSIVE diffWalk(_, _, _, _)
diffWalk(o, m, add, del) ==
  IF o = <<>> /\ m = <<>> THEN [add |-> add, del |-> del]
  ELSE IF o = <<>> THEN diffWalk(o, Tail(m), Append(add, Head(m)), del)
  ELSE IF m = <<>> THEN diffWalk(Tail(o), m, add, del \cup {Head(o)})
  ELSE IF Head(o) = Head(m) THEN diffWalk(Tail(o), Tail(m), add, del)
  ELSE IF Head(o) < Head(m) THEN diffWalk(Tail(o), m, add, del \cup {Head(o)})
  ELSE diffWalk(o, Tail(m), Append(add, Head(m)), del)

CreateTwoWayMergePatch(original, modified) ==
  diffWalk(sortScalars(original), sortScalars(modified), <<>>, {})

RECURSIVE uniqifyScalars(_)
uniqifyScalars(s) ==
  IF s = <<>> THEN <<>>
  ELSE LET r == uniqifyScalars(SubSeq(s, 1, Len(s) - 1))
       IN IF s[Len(s)] \in Range(r) THEN r ELSE Append(r, s[Len(s)])

\* the API server applying the patch to the list it currently stores
StrategicMergePatch(current, patch) ==
  uniqifyScalars(SelectSeq(current, LAMBDA x : x \notin patch.del) \o patch.add)

\* ---- sizes ----
\* A size is a string, modelled as the sequence of its characters.
Digit == <<"0", "1", "2", "3", "4", "5", "6", "7", "8", "9">>
IsDigit(ch) == ch \in Range(Digit)

\* fmt.Sprintf("%d", bytes)
RECURSIVE Sprintf(_)
Sprintf(n) ==
  IF n < 10 THEN <<Digit[n + 1]>>
  ELSE Append(Sprintf(n \div 10), Digit[(n % 10) + 1])

\* humanize.ParseBytes: the leading digits are the number, the rest, trimmed
\* and in lower case, is looked up in the table of units.  Units with a b or
\* without ("k", "kb") are powers of 1000, units with an i ("ki", "kib") powers
\* of 1024.  Sizes with '.' or ',' and the units above giga are not drawn.
RECURSIVE lastDigit(_)
lastDigit(s) == IF s = <<>> \/ ~IsDigit(Head(s)) THEN 0 ELSE 1 + lastDigit(Tail(s))

RECURSIVE ParseFloat(_)
ParseFloat(num) ==
  IF num = <<>> THEN 0
  ELSE 10 * ParseFloat(SubSeq(num, 1, Len(num) - 1)) + (IndexOf(num[Len(num)], Digit) - 1)

ToLower(ch) ==
  CASE ch = "B" -> "b" [] ch = "K" -> "k" [] ch = "M" -> "m" [] ch = "G" -> "g"
    [] ch = "I" -> "i" [] OTHER -> ch

RECURSIVE TrimSpace(_)
TrimSpace(s) ==
  IF s # <<>> /\ Head(s) = " " THEN TrimSpace(Tail(s))
  ELSE IF s # <<>> /\ s[Len(s)] = " " THEN TrimSpace(SubSeq(s, 1, Len(s) - 1))
  ELSE s

\* bytesSizeTable: 0 for a name that is not in the table
bytesSizeTable(name) ==
  CASE name \in {<<>>, <<"b">>} -> 1
    [] name \in {<<"k">>, <<"k", "b">>} -> 1000
    [] name \in {<<"k", "i">>, <<"k", "i", "b">>} -> 1024
    [] name \in {<<"m">>, <<"m", "b">>} -> 1000 * 1000
    [] name \in {<<"m", "i">>, <<"m", "i", "b">>} -> 1024 * 1024
    [] name \in {<<"g">>, <<"g", "b">>} -> 1000 * 1000 * 1000
    [] name \in {<<"g", "i">>, <<"g", "i", "b">>} -> 1024 * 1024 * 1024
    [] OTHER -> 0

\* the byte count is f * m; on an error ParseBytes returns 0
ParseBytes(s) ==
  LET n == lastDigit(s)
      extra == TrimSpace(SubSeq(s, n + 1, Len(s)))
      m == bytesSizeTable([i \in 1 .. Len(extra) |-> ToLower(extra[i])])
  IN IF n = 0 \/ m = 0 THEN [err |-> TRUE, f |-> 0, m |-> 1]
     ELSE [err |-> FALSE, f |-> ParseFloat(SubSeq(s, 1, n)), m |-> m]

\* kilobytes per ploop size unit
KB == 1024

\* the division by 1000 of a decimal kilobyte
volumeSize_decimalKB(size) ==
  LET p == ParseBytes(size)
  IN p.f * (p.m \div 1000) + (p.f * (p.m % 1000)) \div 1000

\* bytes, _ := humanize.ParseBytes(size); volumeSize := bytes / 1024.  The
\* quotient of f * m is formed from the quotient and the remainder of m, so
\* that no intermediate value exceeds 2^31
volumeSize(size) ==
  LET p == ParseBytes(size)
  IN p.f * (p.m \div KB) + (p.f * (p.m % KB)) \div KB

\* ---- calls ----
\* further keys a storage class may carry as parameters: one that no switch of
\* the code names, the one the README documents, the names of the keys
\* Provision sets itself, and the name of the secret
ParameterKeys ==
  {"other", "secretFromSystem", "volumeID", "size", "clusterName", "finalizer", "secretName"}
\* the keys Provision sets in the options itself
EngineKeys == {"volumeID", "size", "clusterName", "finalizer"}

\* the options map: volumePath and volumeID present and not empty, the size
\* string (empty when absent), the number of vzs* keys, the finalizer, and the
\* keys of ParameterKeys that are present with the value the storage class
\* gave, and the keys of the secret's data whose value is in the options
NoOpts ==
  [volumePath |-> FALSE, volumeID |-> FALSE, size |-> <<>>, attrs |-> 0,
   hasFinalizer |-> FALSE, finalizer |-> 0, given |-> {}, fromSecret |-> {}]
NoPV == [owner |-> "none", share |-> FALSE, claim |-> 0, modes |-> "none", opts |-> NoOpts]
\* the access modes and the selector of the claim a Provision call is given,
\* and the keys of ParameterKeys among the parameters of its storage class
NoReq == [modes |-> "none", selector |-> FALSE, extra |-> {}]
\* pc "done": the call has returned res (err names the failing step) and the
\* controller has not yet taken the result; trace lists the external actions
\* the call attempted, before is the stored finalizer list its last step found,
\* mntBefore the number of mounts on the local path when the call began,
\* volumeSize the size PloopVolumeCreate was called with (-1: not called), ns
\* the namespace the secret was looked up in, found whether Mountpoint() gave
\* the call a mount point of the cluster ("none": not asked), got the outcome
\* of the call's Secrets.Get ("none": not called); name, dir and path are the
\* cluster name, the volumePath and the volume path of a call of the
\* specifications of the volume paths
IdleCall ==
  [pc |-> "idle", op |-> "none", claim |-> 0, req |-> NoReq, pv |-> NoPV, opts |-> NoOpts,
   secret |-> <<>>, trace |-> <<>>, volBefore |-> FALSE, imgBefore |-> FALSE,
   recBefore |-> 0, mntBefore |-> 0, volumeSize |-> -1, res |-> "none", err |-> "none",
   patched |-> FALSE, before |-> <<>>, ns |-> "none", found |-> "none",
   got |-> "none", name |-> "none", dir |-> <<>>, path |-> <<>>,
   rw |-> "none", prev |-> "none"]

\* the ploop devices of the node of the flexvolume driver: whether the volume
\* is mounted and read-only, and first, the outcome of the Mount call that came
\* last if the volume was not mounted when that call began ("ok", "err" when it
\* failed before it issued a ploop mount, "errIssued" when the ploop mount it
\* issued failed; "none" otherwise)
NoPloop == [v \in Claims |-> [mounted |-> FALSE, readonly |-> FALSE, first |-> "none"]]

\* call returns res; t is what its last step added to the trace, pv the PV it
\* returns (Provision) or was given (Delete)
Returned(call, res, err, t, pv, patched) ==
  [call EXCEPT !.pc = "done", !.res = res, !.err = err, !.trace = @ \o t,
               !.pv = pv, !.patched = patched, !.before = finalizers]

InFlight(c) == \E w \in Workers : calls[w].pc # "idle" /\ calls[w].claim = c
Provisioning == {w \in Workers : calls[w].op = "Provision"}
\* finalizer tokens of claim c in list s
TokensOf(c, s) == {i \in 1 .. Len(s) : tokClaim[s[i]] = c}

\* ---- prepareVstorage ----
\* the check is never true
IsVstorage_never(m) == FALSE

\* mounted, _ := vstorage.IsVstorage(mount): the local path is a mount of the
\* cluster, and prepareVstorage returns at once
IsVstorage(m) == m > 0

\* the part after the IsVstorage check: MkdirAll, Mountpoint, then a bind mount
\* of the mount point found, or Auth and Mount.  found: Mountpoint() returned a
\* mount point of the cluster; io: the outcome of the external calls.
MountOutcomes(found) ==
  IF found THEN {"ok", "mkdirErr", "mountErr"}
  ELSE {"ok", "mkdirErr", "authErr", "mountErr"}
\* Auth is called before the mount point found is looked at
prepareVstorage_authFirst(m, found, io) ==
  IF io = "mkdirErr" THEN [err |-> "mkdir", mounts |-> m, trace |-> <<"mkdir">>]
  ELSE IF found
  THEN IF io = "ok" THEN [err |-> "none", mounts |-> m + 1, trace |-> <<"mkdir", "auth", "bind">>]
       ELSE [err |-> "mount", mounts |-> m, trace |-> <<"mkdir", "auth", "bind">>]
  ELSE IF io = "authErr" THEN [err |-> "auth", mounts |-> m, trace |-> <<"mkdir", "auth">>]
  ELSE IF io = "ok"
  THEN [err |-> "none", mounts |-> m + 1, trace |-> <<"mkdir", "auth", "mount">>]
  ELSE [err |-> "mount", mounts |-> m, trace |-> <<"mkdir", "auth", "mount">>]

\* the error of Auth is returned after Mount was tried
prepareVstorage_mountAfterAuthError(m, found, io) ==
  IF io = "mkdirErr" THEN [err |-> "mkdir", mounts |-> m, trace |-> <<"mkdir">>]
  ELSE IF found
  THEN IF io = "ok" THEN [err |-> "none", mounts |-> m + 1, trace |-> <<"mkdir", "bind">>]
       ELSE [err |-> "mount", mounts |-> m, trace |-> <<"mkdir", "bind">>]
  ELSE IF io = "authErr"
  THEN [err |-> "auth", mounts |-> m, trace |-> <<"mkdir", "auth", "mount">>]
  ELSE IF io = "ok"
  THEN [err |-> "none", mounts |-> m + 1, trace |-> <<"mkdir", "auth", "mount">>]
  ELSE [err |-> "mount", mounts |-> m, trace |-> <<"mkdir", "auth", "mount">>]

prepareVstorage(m, found, io) ==
  IF io = "mkdirErr" THEN [err |-> "mkdir", mounts |-> m, trace |-> <<"mkdir">>]
  ELSE IF found
  THEN IF io = "ok" THEN [err |-> "none", mounts |-> m + 1, trace |-> <<"mkdir", "bind">>]
       ELSE [err |-> "mount", mounts |-> m, trace |-> <<"mkdir", "bind">>]
  ELSE IF io = "authErr" THEN [err |-> "auth", mounts |-> m, trace |-> <<"mkdir", "auth">>]
  ELSE IF io = "ok"
  THEN [err |-> "none", mounts |-> m + 1, trace |-> <<"mkdir", "auth", "mount">>]
  ELSE [err |-> "mount", mounts |-> m, trace |-> <<"mkdir", "auth", "mount">>]

\* ---- ploop volumes ----
\* ploop.PloopVolumeCreate(ploopPath, size, deltaPath): creates the volume
\* directory and its delta image; an existing volume is overwritten
PloopVolumeCreate(v, im, c) == [vols |-> v \cup {c}, images |-> im \cup {c}]

setAttrTrace(n) == [i \in 1 .. n |-> "setattr"]

\* the check of size left out
createPloopCheck_sizeOptional(opts) ==
  IF ~opts.volumePath THEN "volumePath"
  ELSE IF ~opts.volumeID THEN "volumeID"
  ELSE "none"

\* the required options of createPloop, checked before it touches anything
createPloopCheck(opts) ==
  IF ~opts.volumePath THEN "volumePath"
  ELSE IF ~opts.volumeID THEN "volumeID"
  ELSE IF opts.size = <<>> THEN "size"
  ELSE "none"

\* createPloop without the RemoveAll on a failed set-attr
createPloop_noRollback(v, im, c, opts, io, failAt) ==
  IF createPloopCheck(opts) # "none"
  THEN [err |-> createPloopCheck(opts), vols |-> v, images |-> im, trace |-> <<>>, size |-> -1]
  ELSE IF io = "mkdirErr"
  THEN [err |-> "mkdirDeltas", vols |-> v, images |-> im, trace |-> <<"mkdirDeltas">>,
        size |-> -1]
  ELSE IF io = "createErr"
  THEN [err |-> "create", vols |-> v, images |-> im, trace |-> <<"mkdirDeltas", "create">>,
        size |-> volumeSize(opts.size)]
  ELSE IF failAt > 0
  THEN [err |-> "setattr", vols |-> v \cup {c}, images |-> im \cup {c},
        trace |-> <<"mkdirDeltas", "create">> \o [i \in 1 .. failAt |-> "setattr"],
        size |-> volumeSize(opts.size)]
  ELSE [err |-> "none", vols |-> v \cup {c}, images |-> im \cup {c},
        trace |-> <<"mkdirDeltas", "create">> \o [i \in 1 .. opts.attrs |-> "setattr"],
        size |-> volumeSize(opts.size)]

\* io: outcome of MkdirAll and PloopVolumeCreate; failAt: the set-attr call
\* that fails (0: none); size: the volumeSize PloopVolumeCreate is called with
\* (-1: not called).  deltaPath lies beside ploopPath, not under it, so
\* RemoveAll(ploopPath) leaves it.
createPloop(v, im, c, opts, io, failAt) ==
  IF createPloopCheck(opts) # "none"
  THEN [err |-> createPloopCheck(opts), vols |-> v, images |-> im, trace |-> <<>>, size |-> -1]
  ELSE IF io = "mkdirErr"
  THEN [err |-> "mkdirDeltas", vols |-> v, images |-> im, trace |-> <<"mkdirDeltas">>,
        size |-> -1]
  ELSE IF io = "createErr"
  THEN [err |-> "create", vols |-> v, images |-> im, trace |-> <<"mkdirDeltas", "create">>,
        size |-> volumeSize(opts.size)]
  ELSE LET made == PloopVolumeCreate(v, im, c) IN
       IF failAt > 0
       THEN [err |-> "setattr", vols |-> made.vols \ {c}, images |-> made.images,
             trace |-> <<"mkdirDeltas", "create">> \o setAttrTrace(failAt) \o <<"removeAll">>,
             size |-> volumeSize(opts.size)]
       ELSE [err |-> "none", vols |-> made.vols, images |-> made.images,
             trace |-> <<"mkdirDeltas", "create">> \o setAttrTrace(opts.attrs),
             size |-> volumeSize(opts.size)]

\* PloopVolumeOpen fails on a path that holds no volume
removePloop(v, im, c, io) ==
  IF c \notin v \/ io = "openErr"
  THEN [err |-> "open", vols |-> v, images |-> im, trace |-> <<"open">>]
  ELSE IF io = "deleteErr"
  THEN [err |-> "delete", vols |-> v, images |-> im, trace |-> <<"open", "delete">>]
  ELSE [err |-> "none", vols |-> v \ {c}, images |-> im \ {c}, trace |-> <<"open", "delete">>]

\* ---- Provision ----
\* access modes: "none" (empty list), "rwo" ([ReadWriteOnce]), "other"
\* the selector check left out
ProvisionValidate_noSelector(modes, selector) ==
  IF modes = "other" THEN "accessModes" ELSE "none"

ProvisionValidate(modes, selector) ==
  IF modes = "other" THEN "accessModes"
  ELSE IF selector THEN "selector"
  ELSE "none"

\* the local modes of Provision, which become the PV's AccessModes: an absent
\* AccessModes field defaults to ReadWriteOnce
AccessModes(modes) == IF modes = "none" THEN "rwo" ELSE modes

\* the token appended without looking for it
ProvisionFinalizers_always(secretFinalizers, finalizer) ==
  Append(secretFinalizers, finalizer)

\* the presence test inverted
ProvisionFinalizers_inverted(secretFinalizers, finalizer) ==
  IF IndexOf(finalizer, secretFinalizers) # 0
  THEN Append(secretFinalizers, finalizer)
  ELSE secretFinalizers

\* newSecret.Finalizers of Provision: the token appended unless already there
ProvisionFinalizers(secretFinalizers, finalizer) ==
  IF IndexOf(finalizer, secretFinalizers) = 0
  THEN Append(secretFinalizers, finalizer)
  ELSE secretFinalizers

\* the compensation left out
ProvisionCleanup_skipped(v, im, c, io) ==
  [err |-> "none", vols |-> v, images |-> im, trace |-> <<>>]

\* compensation after a failed patch: removePloop on the volume just created
ProvisionCleanup(v, im, c, io) == removePloop(v, im, c, io)

\* options["finalizer"] not stored in the PV
MakePV_noFinalizer(c, modes, opts, finalizer) ==
  [owner |-> provisionerID, share |-> TRUE, claim |-> c, modes |-> modes, opts |-> opts]

\* the PV; clusterName and finalizer are set in its options over whatever the
\* storage class gave under these names
MakePV(c, modes, opts, finalizer) ==
  [owner |-> provisionerID, share |-> TRUE, claim |-> c, modes |-> modes,
   opts |-> [opts EXCEPT !.hasFinalizer = TRUE, !.finalizer = finalizer,
                         !.given = @ \ {"clusterName", "finalizer"},
                         !.fromSecret = {"clusterName"}]]

\* a parameter that no switch names is dropped from the options
ProvisionOptions_dropsOther(capacity, volumePath, attrs, extra) ==
  [NoOpts EXCEPT !.volumePath = volumePath, !.attrs = attrs, !.volumeID = TRUE,
                 !.size = Sprintf(capacity), !.given = extra \ {"volumeID", "size", "secretName", "other"}]

\* storageClassOptions: the parameters of the storage class, with volumeID set
\* to the share and size to the claim's capacity in bytes (0 when the claim
\* requests no storage), as a decimal string, and with secretName deleted
ProvisionOptions(capacity, volumePath, attrs, extra) ==
  [NoOpts EXCEPT !.volumePath = volumePath, !.attrs = attrs, !.volumeID = TRUE,
                 !.size = Sprintf(capacity),
                 !.given = extra \ {"volumeID", "size", "secretName"}]

\* the namespace Provision reads the secret from: options.PVC.Namespace
SecretNamespace(extra) == "claim"

\* the error of Secrets.Get is dropped
GetFailed_never(getOk) == FALSE

\* `if err != nil { return nil, err }` after Secrets(...).Get
GetFailed(getOk) == ~getOk

\* validation, secret Get and the IsVstorage check of prepareVstorage
ProvisionStart(w, c, modes, selector, capacity, volumePath, attrs, extra, getOk) ==
  /\ calls[w].pc = "idle"
  /\ ~InFlight(c)
  /\ Len(tokClaim) + Cardinality(Provisioning) < MaxTokens
  /\ LET call == [IdleCall EXCEPT !.op = "Provision", !.claim = c,
                    !.got = IF ProvisionValidate(modes, selector) # "none" THEN "none"
                            ELSE IF getOk THEN "ok" ELSE "failed",
                    !.req = [modes |-> modes, selector |-> selector, extra |-> extra],
                    !.opts = ProvisionOptions(capacity, volumePath, attrs, extra),
                    !.volBefore = c \in vols, !.imgBefore = c \in images,
                    !.recBefore = Cardinality(TokensOf(c, finalizers)),
                    !.mntBefore = mounts]
         bad == ProvisionValidate(modes, selector)
     IN calls' = [calls EXCEPT ![w] =
          IF bad # "none" THEN Returned(call, "err", bad, <<>>, NoPV, FALSE)
          ELSE IF GetFailed(getOk)
          THEN Returned([call EXCEPT !.ns = SecretNamespace(extra)], "err", "get", <<"get">>,
                        NoPV, FALSE)
          ELSE [call EXCEPT !.secret = finalizers, !.trace = <<"get">>,
                            !.ns = SecretNamespace(extra),
                            !.pc = IF IsVstorage(mounts) THEN "create" ELSE "mount"]]
  /\ UNCHANGED <<finalizers, vols, images, mounts, tokClaim, handle, identity, ploop>>

\* the step that follows a successful prepareVstorage
\* prepareVstorage is called again after it succeeded
AfterMount_again(op) == "mount"

\* Provision records its token right after the mount
AfterMount_recordFirst(op) ==
  CASE op = "Provision" -> "record"
    [] op = "Delete" -> "remove"
    [] op = "pdProvision" -> "pdcreate"
    [] op = "p2Provision" -> "p2create"
    [] OTHER -> "pdremove"

AfterMount(op) ==
  CASE op = "Provision" -> "create"
    [] op = "Delete" -> "remove"
    [] op = "pdProvision" -> "pdcreate"
    [] op = "p2Provision" -> "p2create"
    [] OTHER -> "pdremove"

\* prepareVstorage when the local path was found unmounted (Provision and Delete)
Mount(w, found, io) ==
  /\ calls[w].pc = "mount"
  /\ mounts > 0 => found
  /\ io \in MountOutcomes(found)
  /\ LET r == prepareVstorage(mounts, found, io)
         call == [calls[w] EXCEPT !.found = IF io = "mkdirErr" THEN "none"
                                            ELSE IF found THEN "yes" ELSE "no"]
     IN
     /\ mounts' = r.mounts
     /\ calls' = [calls EXCEPT ![w] =
          IF r.err # "none" THEN Returned(call, "err", r.err, r.trace, call.pv, FALSE)
          ELSE [call EXCEPT !.trace = @ \o r.trace,
                            !.pc = AfterMount(calls[w].op)]]
  /\ UNCHANGED <<finalizers, vols, images, tokClaim, handle, identity, ploop>>

ProvisionCreate(w, io, failAt) ==
  /\ calls[w].pc = "create"
  /\ failAt <= calls[w].opts.attrs
  /\ failAt > 0 => io = "ok"
  /\ LET r == createPloop(vols, images, calls[w].claim, calls[w].opts, io, failAt) IN
     /\ vols' = r.vols
     /\ images' = r.images
     /\ calls' = [calls EXCEPT ![w] =
          IF r.err # "none"
          THEN Returned([@ EXCEPT !.volumeSize = r.size], "err", r.err, r.trace, NoPV, FALSE)
          ELSE [@ EXCEPT !.trace = @ \o r.trace, !.volumeSize = r.size, !.pc = "record"]]
  /\ UNCHANGED <<finalizers, mounts, tokClaim, handle, identity, ploop>>

\* the token uuid.NewUUID() returned, the PV, the patch of the secret and the
\* compensation.  A token whose patch failed reaches neither the secret nor a
\* PV; its number is drawn again.  tokClaim keeps the first claim a token was
\* drawn for.
ProvisionRecord(w, finalizer, patchOk, io) ==
  /\ calls[w].pc = "record"
  /\ patchOk => io = "ok"
  /\ finalizer \in 1 .. MaxTokens
  /\ finalizer <= Len(tokClaim) + 1
  /\ LET c == calls[w].claim
         drawn == IF finalizer > Len(tokClaim) THEN Append(tokClaim, c) ELSE tokClaim
         pv == MakePV(c, AccessModes(calls[w].req.modes), calls[w].opts, finalizer)
         newFinalizers == ProvisionFinalizers(calls[w].secret, finalizer)
         patch == CreateTwoWayMergePatch(calls[w].secret, newFinalizers)
         \* Delete reads volumePath, volumeID and finalizer of the options only:
         \* the stored PV leaves the other keys out
         issue == [x \in DOMAIN handle \cup {c} |->
                     IF x = c THEN [pv EXCEPT !.opts.attrs = 0, !.opts.size = <<>>,
                                              !.opts.given = {}]
                     ELSE handle[x]]
     IN IF newFinalizers = calls[w].secret
        THEN /\ calls' = [calls EXCEPT ![w] = Returned(@, "ok", "none", <<>>, pv, FALSE)]
             /\ handle' = issue
             /\ tokClaim' = drawn
             /\ UNCHANGED <<finalizers, vols, images>>
        ELSE IF patchOk
        THEN /\ finalizers' = StrategicMergePatch(finalizers, patch)
             /\ calls' = [calls EXCEPT ![w] = Returned(@, "ok", "none", <<"patch">>, pv, TRUE)]
             /\ handle' = issue
             /\ tokClaim' = drawn
             /\ UNCHANGED <<vols, images>>
        ELSE LET r == ProvisionCleanup(vols, images, c, io) IN
             /\ vols' = r.vols
             /\ images' = r.images
             /\ calls' = [calls EXCEPT ![w] =
                  Returned(@, "err", IF r.err = "none" THEN "patch" ELSE "patch+cleanup",
                           <<"patch">> \o r.trace, pv, FALSE)]
             /\ UNCHANGED <<finalizers, handle, tokClaim>>
  /\ UNCHANGED <<mounts, identity, ploop>>

\* ---- Delete ----
\* the share annotation is not looked for
DeleteCheck_noShareCheck(pv) ==
  IF pv.owner = "none" THEN "noOwnerAnn"
  ELSE IF pv.owner # provisionerID THEN "ignored"
  ELSE "ok"

\* the comparison with *provisionerID left out
DeleteCheck_anyOwner(pv) ==
  IF pv.owner = "none" THEN "noOwnerAnn"
  ELSE IF ~pv.share THEN "noShareAnn"
  ELSE "ok"

\* the annotation checks Delete makes before it touches anything
DeleteCheck(pv) ==
  IF pv.owner = "none" THEN "noOwnerAnn"
  ELSE IF pv.owner # provisionerID THEN "ignored"
  ELSE IF ~pv.share THEN "noShareAnn"
  ELSE "ok"

\* newSecret := *secret copies the slice header only, so the append that drops
\* element idx shifts the tail inside the array secret.Finalizers still refers
\* to: the old list, of unchanged length, ends with its last element twice
DeleteFinalizers(secretFinalizers, idx) ==
  LET new == RemoveAt(secretFinalizers, idx)
  IN [new |-> new, old |-> Append(new, secretFinalizers[Len(secretFinalizers)])]

\* the PVs Delete is called with: a PV of claim c as Provision returned it, the
\* same without the finalizer option (as the releases before the finalizer
\* returned it), with the owner annotation of another provisioner, without it,
\* or without the share annotation; for a claim with no PV yet, only the last
\* three
PVOf(c) == IF c \in DOMAIN handle THEN handle[c] ELSE [NoPV EXCEPT !.claim = c]
PVs ==
  {handle[c] : c \in DOMAIN handle} \cup
  {[handle[c] EXCEPT !.opts.hasFinalizer = FALSE, !.opts.finalizer = 0] : c \in DOMAIN handle} \cup
  {[PVOf(c) EXCEPT !.owner = "other", !.share = TRUE] : c \in Claims} \cup
  {[PVOf(c) EXCEPT !.owner = "none", !.share = TRUE] : c \in Claims} \cup
  {[PVOf(c) EXCEPT !.owner = provisionerID, !.share = FALSE] : c \in Claims}

\* annotation checks, secret Get and the IsVstorage check of prepareVstorage
DeleteStart(w, pv, getOk) ==
  /\ calls[w].pc = "idle"
  /\ pv \in PVs
  /\ ~InFlight(pv.claim)
  /\ LET c == pv.claim
         call == [IdleCall EXCEPT !.op = "Delete", !.claim = c, !.pv = pv, !.opts = pv.opts,
                    !.got = IF DeleteCheck(pv) # "ok" THEN "none"
                            ELSE IF getOk THEN "ok" ELSE "failed",
                    !.volBefore = c \in vols, !.imgBefore = c \in images,
                    !.recBefore = Cardinality(TokensOf(c, finalizers)),
                    !.mntBefore = mounts]
         chk == DeleteCheck(pv)
     IN calls' = [calls EXCEPT ![w] =
          IF chk # "ok"
          THEN Returned(call, IF chk = "ignored" THEN "ignored" ELSE "err", chk, <<>>, pv, FALSE)
          ELSE IF GetFailed(getOk) THEN Returned(call, "err", "get", <<"get">>, pv, FALSE)
          ELSE [call EXCEPT !.secret = finalizers, !.trace = <<"get">>,
                            !.pc = IF IsVstorage(mounts) THEN "remove" ELSE "mount"]]
  /\ UNCHANGED <<finalizers, vols, images, mounts, tokClaim, handle, identity, ploop>>

DeleteRemove(w, io) ==
  /\ calls[w].pc = "remove"
  /\ LET r == removePloop(vols, images, calls[w].claim, io) IN
     /\ vols' = r.vols
     /\ images' = r.images
     /\ calls' = [calls EXCEPT ![w] =
          IF r.err # "none" THEN Returned(@, "err", r.err, r.trace, @.pv, FALSE)
          ELSE [@ EXCEPT !.trace = @ \o r.trace, !.pc = "clear"]]
  /\ UNCHANGED <<finalizers, mounts, tokClaim, handle, identity, ploop>>

\* a token that is not found takes the last finalizer of the list
DeleteIndex_lastWhenAbsent(opts, secretFinalizers) ==
  IF opts.hasFinalizer /\ IndexOf(opts.finalizer, secretFinalizers) # 0
  THEN IndexOf(opts.finalizer, secretFinalizers)
  ELSE Len(secretFinalizers)

\* where Delete finds the token of the options in the secret's finalizers; 0
\* when the options have no finalizer entry or the list does not hold it
DeleteIndex(opts, secretFinalizers) ==
  IF opts.hasFinalizer THEN IndexOf(opts.finalizer, secretFinalizers) ELSE 0

\* the error of patchSecret is returned
DeleteResult_reportsPatch(patchOk) == IF patchOk THEN "ok" ELSE "err"

\* what Delete returns after the patch that clears the token: the error of
\* patchSecret is logged, `return nil` follows
DeleteResult(patchOk) == "ok"

\* the finalizer is looked up in the secret read at the start and patched out;
\* a failed patch is logged and Delete still returns nil
DeleteClear(w, patchOk) ==
  /\ calls[w].pc = "clear"
  /\ LET idx == DeleteIndex(calls[w].opts, calls[w].secret)
     IN IF idx = 0
        THEN /\ patchOk
             /\ calls' = [calls EXCEPT ![w] = Returned(@, "ok", "none", <<>>, @.pv, FALSE)]
             /\ UNCHANGED finalizers
        ELSE LET f == DeleteFinalizers(calls[w].secret, idx)
                 patch == CreateTwoWayMergePatch(f.old, f.new)
             IN /\ finalizers' = IF patchOk THEN StrategicMergePatch(finalizers, patch)
                                 ELSE finalizers
                /\ calls' = [calls EXCEPT ![w] =
                     Returned(@, DeleteResult(patchOk), "none", <<"patch">>, @.pv, patchOk)]
  /\ UNCHANGED <<vols, images, mounts, tokClaim, handle, identity, ploop>>

\* the controller takes the result of a finished call
Return(w) ==
  /\ calls[w].pc = "done"
  /\ calls' = [calls EXCEPT ![w] = IdleCall]
  /\ UNCHANGED <<finalizers, vols, images, mounts, tokClaim, handle, identity, ploop>>

\* ---- vzstorage-pd/virtuozzo-provisioner.go ----
\* The provisioner of vzstorage-pd: prepareVstorage and the annotation checks
\* of Delete are those above; the volume ID is a fresh UUID, no finalizer is
\* kept, and Provision and Delete defer an Unmount of the local path.

\* syscall.Unmount(mountDir+name, MNT_DETACH): the topmost mount is detached;
\* the error of unmounting an unmounted path is dropped
Unmount(m) == IF m > 0 THEN m - 1 ELSE 0

\* createPloop of vzstorage-pd: MkdirAll(ploopPath), the set-attr calls with
\* RemoveAll on a failure, then ploop.Create of the image inside ploopPath
pdCreatePloop(v, im, c, opts, io, failAt) ==
  IF createPloopCheck(opts) # "none"
  THEN [err |-> createPloopCheck(opts), vols |-> v, images |-> im, trace |-> <<>>]
  ELSE IF io = "mkdirErr"
  THEN [err |-> "mkdirVol", vols |-> v, images |-> im, trace |-> <<"mkdirVol">>]
  ELSE IF failAt > 0
  THEN [err |-> "setattr", vols |-> v \ {c}, images |-> im \ {c},
        trace |-> <<"mkdirVol">> \o setAttrTrace(failAt) \o <<"removeAll">>]
  ELSE IF io = "createErr"
  THEN [err |-> "create", vols |-> v \cup {c}, images |-> im,
        trace |-> <<"mkdirVol">> \o setAttrTrace(opts.attrs) \o <<"create">>]
  ELSE [err |-> "none", vols |-> v \cup {c}, images |-> im \cup {c},
        trace |-> <<"mkdirVol">> \o setAttrTrace(opts.attrs) \o <<"create">>]

pdMakePV(c, modes, opts) ==
  [owner |-> provisionerID, share |-> TRUE, claim |-> c, modes |-> modes, opts |-> opts]

\* selector check, secret Get and the IsVstorage check of prepareVstorage; c is
\* the share the call draws with uuid.NewUUID(), which names no existing volume;
\* the claim's access modes are not looked at and are copied to the PV
pdProvisionStart(w, c, modes, selector, volumePath, attrs, getOk) ==
  /\ calls[w].pc = "idle"
  /\ ~InFlight(c)
  /\ c \notin vols
  /\ LET call == [IdleCall EXCEPT !.op = "pdProvision", !.claim = c,
                    !.req = [modes |-> modes, selector |-> selector, extra |-> {}],
                    !.opts = ProvisionOptions(Gibibyte, volumePath, attrs, {}),
                    !.mntBefore = mounts]
     IN calls' = [calls EXCEPT ![w] =
          IF selector THEN Returned(call, "err", "selector", <<>>, NoPV, FALSE)
          ELSE IF ~getOk THEN Returned(call, "err", "get", <<"get">>, NoPV, FALSE)
          ELSE [call EXCEPT !.trace = <<"get">>,
                            !.pc = IF IsVstorage(mounts) THEN "pdcreate" ELSE "mount"]]
  /\ UNCHANGED <<finalizers, vols, images, mounts, tokClaim, handle, identity, ploop>>

\* createPloop, the PV, and the deferred Unmount that runs as Provision returns
pdProvisionCreate(w, io, failAt) ==
  /\ calls[w].pc = "pdcreate"
  /\ failAt <= calls[w].opts.attrs
  /\ failAt > 0 => io = "ok"
  /\ LET c == calls[w].claim
         r == pdCreatePloop(vols, images, c, calls[w].opts, io, failAt)
         pv == pdMakePV(c, calls[w].req.modes,
                        [calls[w].opts EXCEPT !.attrs = 0, !.size = <<>>])
     IN /\ vols' = r.vols
        /\ images' = r.images
        /\ mounts' = Unmount(mounts)
        /\ IF r.err # "none"
           THEN /\ calls' = [calls EXCEPT ![w] =
                     Returned(@, "err", r.err, r.trace \o <<"unmount">>, NoPV, FALSE)]
                /\ UNCHANGED handle
           ELSE /\ calls' = [calls EXCEPT ![w] =
                     Returned(@, "ok", "none", r.trace \o <<"unmount">>, pv, FALSE)]
                /\ handle' = [x \in DOMAIN handle \cup {c} |->
                                IF x = c THEN pv ELSE handle[x]]
  /\ UNCHANGED <<finalizers, tokClaim, identity, ploop>>

\* annotation checks, secret Get and the IsVstorage check of prepareVstorage
pdDeleteStart(w, pv, getOk) ==
  /\ calls[w].pc = "idle"
  /\ pv \in PVs
  /\ ~InFlight(pv.claim)
  /\ LET call == [IdleCall EXCEPT !.op = "pdDelete", !.claim = pv.claim, !.pv = pv,
                    !.opts = pv.opts, !.volBefore = pv.claim \in vols,
                    !.mntBefore = mounts]
         chk == DeleteCheck(pv)
     IN calls' = [calls EXCEPT ![w] =
          IF chk # "ok"
          THEN Returned(call, IF chk = "ignored" THEN "ignored" ELSE "err", chk, <<>>, pv, FALSE)
          ELSE IF ~getOk THEN Returned(call, "err", "get", <<"get">>, pv, FALSE)
          ELSE [call EXCEPT !.trace = <<"get">>,
                            !.pc = IF IsVstorage(mounts) THEN "pdremove" ELSE "mount"]]
  /\ UNCHANGED <<finalizers, vols, images, mounts, tokClaim, handle, identity, ploop>>

\* os.RemoveAll(path) and the deferred Unmount that runs as Delete returns
pdDeleteRemove(w, io) ==
  /\ calls[w].pc = "pdremove"
  /\ LET c == calls[w].claim IN
     /\ vols' = IF io = "ok" THEN vols \ {c} ELSE vols
     /\ images' = IF io = "ok" THEN images \ {c} ELSE images
     /\ calls' = [calls EXCEPT ![w] =
          IF io = "ok" THEN Returned(@, "ok", "none", <<"removeAll", "unmount">>, @.pv, FALSE)
          ELSE Returned(@, "err", "removeAll", <<"removeAll", "unmount">>, @.pv, FALSE)]
  /\ mounts' = Unmount(mounts)
  /\ UNCHANGED <<finalizers, tokClaim, handle, identity, ploop>>

\* ---- the provisioner of virtuozzo-storage ----
\* parseParameters: volumePath is the one parameter it accepts
parseParameters(volumePath, extra) ==
  IF extra # {} THEN "invalidOption"
  ELSE IF ~volumePath THEN "volumePath"
  ELSE "none"

\* volume.Create: a key its switch does not name is refused, then the steps are
\* those of createPloop of vzstorage-pd
Create(v, im, c, opts, io, failAt) ==
  IF opts.given # {}
  THEN [err |-> "unknownOption", vols |-> v, images |-> im, trace |-> <<>>]
  ELSE pdCreatePloop(v, im, c, opts, io, failAt)

\* newVzFSProvisioner: identity: uuid.NewUUID(), another value at every start
\* of the process (the second start is the last one modelled)
newVzFSProvisioner(before) == IF before = provisionerID THEN "us-2" ELSE "us-3"

\* the PV of virtuozzo-storage: the owner annotation is string(p.identity)
vsMakePV(c, modes, opts) ==
  [owner |-> identity, share |-> TRUE, claim |-> c, modes |-> modes, opts |-> opts]

\* the annotation checks of Delete of virtuozzo-storage, against p.identity
vsDeleteCheck(pv) ==
  IF pv.owner = "none" THEN "noOwnerAnn"
  ELSE IF pv.owner # identity THEN "ignored"
  ELSE IF ~pv.share THEN "noShareAnn"
  ELSE "ok"

\* the process of the provisioner ends and is started again, with no call in
\* progress
vsRestart ==
  /\ \A w \in Workers : calls[w].pc = "idle"
  /\ identity \in {provisionerID, "us-2"}
  /\ identity' = newVzFSProvisioner(identity)
  /\ UNCHANGED <<finalizers, vols, images, mounts, tokClaim, handle, calls, ploop>>

\* parseParameters, the MatchExpressions check and ploop_options; c is the share
\* the call draws with uuid.NewUUID(); attrs counts the vzsReplicas and vzsTier
\* labels of the claim's selector
vsProvisionStart(w, c, modes, selector, volumePath, attrs, extra) ==
  /\ calls[w].pc = "idle"
  /\ ~InFlight(c)
  /\ c \notin vols
  /\ LET call == [IdleCall EXCEPT !.op = "vsProvision", !.claim = c,
                    !.req = [modes |-> modes, selector |-> selector, extra |-> extra],
                    !.opts = [NoOpts EXCEPT !.volumePath = volumePath, !.volumeID = TRUE,
                                            !.size = Sprintf(Gibibyte), !.attrs = attrs]]
         bad == parseParameters(volumePath, extra)
     IN calls' = [calls EXCEPT ![w] =
          IF bad # "none" THEN Returned(call, "err", bad, <<>>, NoPV, FALSE)
          ELSE IF selector THEN Returned(call, "err", "selector", <<>>, NoPV, FALSE)
          ELSE [call EXCEPT !.pc = "vscreate"]]
  /\ UNCHANGED <<finalizers, vols, images, mounts, tokClaim, handle, identity, ploop>>

\* volume.Create and the PV
vsProvisionCreate(w, io, failAt) ==
  /\ calls[w].pc = "vscreate"
  /\ failAt <= calls[w].opts.attrs
  /\ failAt > 0 => io = "ok"
  /\ LET c == calls[w].claim
         r == Create(vols, images, c, calls[w].opts, io, failAt)
         pv == vsMakePV(c, calls[w].req.modes,
                        [calls[w].opts EXCEPT !.attrs = 0, !.size = <<>>])
     IN /\ vols' = r.vols
        /\ images' = r.images
        /\ IF r.err # "none"
           THEN /\ calls' = [calls EXCEPT ![w] = Returned(@, "err", r.err, r.trace, NoPV, FALSE)]
                /\ UNCHANGED handle
           ELSE /\ calls' = [calls EXCEPT ![w] = Returned(@, "ok", "none", r.trace, pv, FALSE)]
                /\ handle' = [x \in DOMAIN handle \cup {c} |->
                                IF x = c THEN pv ELSE handle[x]]
  /\ UNCHANGED <<finalizers, mounts, tokClaim, identity, ploop>>

\* the annotation checks and os.RemoveAll(path)
vsDelete(w, pv, io) ==
  /\ calls[w].pc = "idle"
  /\ pv \in PVs
  /\ ~InFlight(pv.claim)
  /\ LET c == pv.claim
         call == [IdleCall EXCEPT !.op = "vsDelete", !.claim = c, !.pv = pv,
                    !.opts = pv.opts, !.volBefore = c \in vols]
         chk == vsDeleteCheck(pv)
         removed == chk = "ok" /\ io = "ok"
     IN /\ vols' = IF removed THEN vols \ {c} ELSE vols
        /\ images' = IF removed THEN images \ {c} ELSE images
        /\ calls' = [calls EXCEPT ![w] =
             IF chk # "ok"
             THEN Returned(call, IF chk = "ignored" THEN "ignored" ELSE "err", chk, <<>>, pv, FALSE)
             ELSE IF io = "ok" THEN Returned(call, "ok", "none", <<"removeAll">>, pv, FALSE)
             ELSE Returned(call, "err", "removeAll", <<"removeAll">>, pv, FALSE)]
  /\ UNCHANGED <<finalizers, mounts, tokClaim, handle, identity, ploop>>

\* ---- src/unnamed/part_002 ----
\* An earlier provisioner: prepareVstorage and createPloop are those of
\* vzstorage-pd, the owner annotation is the identity drawn at start, and the
\* options of the PV are the storage class's parameters with volumeId and size
\* set; Delete reads no secret.

\* storage_class_options: every parameter is copied and none is deleted
p2ProvisionOptions(capacity, volumePath, attrs, extra) ==
  [NoOpts EXCEPT !.volumePath = volumePath, !.attrs = attrs, !.volumeID = TRUE,
                 !.size = Sprintf(capacity), !.given = extra \ {"size"}]

\* selector check, secret Get and the IsVstorage check of prepareVstorage; c is
\* the share the call draws with uuid.NewUUID()
p2ProvisionStart(w, c, modes, selector, volumePath, attrs, extra, getOk) ==
  /\ calls[w].pc = "idle"
  /\ ~InFlight(c)
  /\ c \notin vols
  /\ LET call == [IdleCall EXCEPT !.op = "p2Provision", !.claim = c,
                    !.req = [modes |-> modes, selector |-> selector, extra |-> extra],
                    !.opts = p2ProvisionOptions(Gibibyte, volumePath, attrs, extra),
                    !.mntBefore = mounts]
     IN calls' = [calls EXCEPT ![w] =
          IF selector THEN Returned(call, "err", "selector", <<>>, NoPV, FALSE)
          ELSE IF GetFailed(getOk) THEN Returned(call, "err", "get", <<"get">>, NoPV, FALSE)
          ELSE [call EXCEPT !.trace = <<"get">>,
                            !.pc = IF IsVstorage(mounts) THEN "p2create" ELSE "mount"]]
  /\ UNCHANGED <<finalizers, vols, images, mounts, tokClaim, handle, identity, ploop>>

\* createPloop, the PV with Options: storage_class_options, and the deferred
\* Unmount that runs as Provision returns
p2ProvisionCreate(w, io, failAt) ==
  /\ calls[w].pc = "p2create"
  /\ failAt <= calls[w].opts.attrs
  /\ failAt > 0 => io = "ok"
  /\ LET c == calls[w].claim
         r == pdCreatePloop(vols, images, c, calls[w].opts, io, failAt)
         pv == vsMakePV(c, calls[w].req.modes,
                        [calls[w].opts EXCEPT !.attrs = 0, !.size = <<>>])
     IN /\ vols' = r.vols
        /\ images' = r.images
        /\ mounts' = Unmount(mounts)
        /\ IF r.err # "none"
           THEN /\ calls' = [calls EXCEPT ![w] =
                     Returned(@, "err", r.err, r.trace \o <<"unmount">>, NoPV, FALSE)]
                /\ UNCHANGED handle
           ELSE /\ calls' = [calls EXCEPT ![w] =
                     Returned(@, "ok", "none", r.trace \o <<"unmount">>, pv, FALSE)]
                /\ handle' = [x \in DOMAIN handle \cup {c} |->
                                IF x = c THEN pv ELSE handle[x]]
  /\ UNCHANGED <<finalizers, tokClaim, identity, ploop>>

\* the annotation checks, then prepareVstorage and os.RemoveAll under
\* MountDir + options["kubernetes.io/secret/clusterName"]: Provision stored no
\* such key, so the local path is not the one the volume was created under,
\* and neither the volume nor the mounts of that path change
p2Delete(w, pv, io) ==
  /\ calls[w].pc = "idle"
  /\ pv \in PVs
  /\ ~InFlight(pv.claim)
  /\ LET c == pv.claim
         call == [IdleCall EXCEPT !.op = "p2Delete", !.claim = c, !.pv = pv,
                    !.opts = pv.opts, !.volBefore = c \in vols, !.mntBefore = mounts]
         chk == vsDeleteCheck(pv)
     IN calls' = [calls EXCEPT ![w] =
          IF chk # "ok"
          THEN Returned(call, IF chk = "ignored" THEN "ignored" ELSE "err", chk, <<>>, pv, FALSE)
          ELSE IF io = "prepareErr"
          THEN Returned(call, "err", "prepare", <<"prepare">>, pv, FALSE)
          ELSE IF io = "removeErr"
          THEN Returned(call, "err", "removeAll", <<"prepare", "removeAll", "unmount">>,
                        pv, FALSE)
          ELSE Returned(call, "ok", "none", <<"prepare", "removeAll", "unmount">>, pv, FALSE)]
  /\ UNCHANGED <<finalizers, vols, images, mounts, tokClaim, handle, identity, ploop>>

\* ---- src/unnamed/part_004: the flexvolume driver ----
\* volume.IsMounted() reports every volume as not mounted
IsMounted_never(p, v) == FALSE

\* m, _ := volume.IsMounted()
IsMounted(p, v) == p[v].mounted

\* readonly := options["kubernetes.io/readwrite"] == "ro"
Readonly(rw) == rw = "ro"

\* prepareVstorage of the driver: as that of the provisioner, with an error
\* when neither a mount point of the cluster nor a password is there
flexPrepareVstorage(m, found, passwd, io) ==
  IF IsVstorage(m) THEN [err |-> "none", mounts |-> m, trace |-> <<>>]
  ELSE IF io # "mkdirErr" /\ ~found /\ ~passwd
  THEN [err |-> "credentials", mounts |-> m, trace |-> <<"mkdir">>]
  ELSE prepareVstorage(m, found, io)

\* Ploop.Mount(target, options) for volume v: MkdirAll(target), the decoding
\* of the cluster name and password and prepareVstorage when the options name
\* a cluster, ploop.Open, and volume.Mount unless the volume is mounted.  rw is
\* options["kubernetes.io/readwrite"]; cluster and passwd: the options name a
\* cluster and carry a password; io and pio: the outcomes of the external calls
\* of Mount and of prepareVstorage.
flexMount(w, v, rw, cluster, passwd, found, pio, io) ==
  /\ calls[w].pc = "idle"
  /\ mounts > 0 => found
  /\ pio \in MountOutcomes(found)
  /\ ~cluster => (~passwd /\ ~found /\ pio = "ok" /\ io # "decodeErr")
  /\ io = "ploopMountErr" => ~IsMounted(ploop, v)
  /\ LET call == [IdleCall EXCEPT !.op = "flexMount", !.claim = v, !.rw = rw,
                    !.volBefore = ploop[v].mounted, !.mntBefore = mounts,
                    !.prev = ploop[v].first]
         r == IF cluster /\ io \notin {"mkdirTargetErr", "decodeErr"}
              THEN flexPrepareVstorage(mounts, found, passwd, pio)
              ELSE [err |-> "none", mounts |-> mounts, trace |-> <<>>]
         issues == /\ io \notin {"mkdirTargetErr", "decodeErr", "openErr"}
                   /\ r.err = "none"
                   /\ ~IsMounted(ploop, v)
         done ==
           IF io = "mkdirTargetErr"
           THEN Returned(call, "err", "mkdirTarget", <<"mkdirTarget">>, NoPV, FALSE)
           ELSE IF io = "decodeErr"
           THEN Returned(call, "err", "decode", <<"mkdirTarget">>, NoPV, FALSE)
           ELSE IF r.err # "none"
           THEN Returned(call, "err", r.err, <<"mkdirTarget">> \o r.trace, NoPV, FALSE)
           ELSE IF io = "openErr"
           THEN Returned(call, "err", "open", <<"mkdirTarget">> \o r.trace \o <<"open">>,
                         NoPV, FALSE)
           ELSE IF ~issues
           THEN Returned(call, "ok", "none",
                         <<"mkdirTarget">> \o r.trace \o <<"open", "isMounted">>, NoPV, FALSE)
           ELSE IF io = "ploopMountErr"
           THEN Returned(call, "err", "ploopMount",
                         <<"mkdirTarget">> \o r.trace \o <<"open", "isMounted", "ploopMount">>,
                         NoPV, FALSE)
           ELSE Returned(call, "ok", "none",
                         <<"mkdirTarget">> \o r.trace \o <<"open", "isMounted", "ploopMount">>,
                         NoPV, FALSE)
     IN /\ mounts' = r.mounts
        /\ calls' = [calls EXCEPT ![w] = done]
        /\ ploop' = [ploop EXCEPT ![v] =
             [mounted |-> @.mounted \/ (issues /\ io = "ok"),
              readonly |-> IF issues /\ io = "ok" THEN Readonly(rw) ELSE @.readonly,
              first |-> IF @.mounted THEN "none"
                        ELSE IF done.res = "ok" THEN "ok"
                        ELSE IF issues THEN "errIssued" ELSE "err"]]
  /\ UNCHANGED <<finalizers, vols, images, tokClaim, handle, identity>>

\* Ploop.Unmount(mount) for the mount point of volume v: ploop.UmountByMount,
\* which fails on a path that no ploop device is mounted on
flexUnmount(w, v, io) ==
  /\ calls[w].pc = "idle"
  /\ LET call == [IdleCall EXCEPT !.op = "flexUnmount", !.claim = v,
                    !.volBefore = ploop[v].mounted]
         ok == ploop[v].mounted /\ io = "ok"
     IN /\ calls' = [calls EXCEPT ![w] =
             IF ok THEN Returned(call, "ok", "none", <<"umount">>, NoPV, FALSE)
             ELSE Returned(call, "err", "umount", <<"umount">>, NoPV, FALSE)]
        /\ ploop' = [ploop EXCEPT ![v] =
             [mounted |-> @.mounted /\ ~ok, readonly |-> @.readonly /\ ~ok,
              first |-> "none"]]
  /\ UNCHANGED <<finalizers, vols, images, mounts, tokClaim, handle, identity>>

\* ---- volume paths ----
\* A path is the sequence of its elements.  In the specifications of this
\* section vols holds the paths of the volumes that exist, and handle the
\* options of the PV of a claim together with the path its volume was made at.
ClusterNames == {"c1", "c2"}
\* values of the parameter volumePath
VolumePaths == {<<"k8s">>, <<"k8s", "sub", "..">>}

\* const mountDir = provisionerDir + "mnt/"
mountDir == <<"export", "virtuozzo-provisioner", "mnt">>
\* mount := mountDir + name
MountOf(name) == mountDir \o <<name>>

\* path.Clean of a rooted path: empty elements and "." are dropped, ".."
\* takes the element before it away
RECURSIVE CleanFrom(_, _)
CleanFrom(done, rest) ==
  IF rest = <<>> THEN done
  ELSE LET e == Head(rest) IN
       IF e \in {"", "."} THEN CleanFrom(done, Tail(rest))
       ELSE IF e = ".."
       THEN CleanFrom(IF done = <<>> THEN done ELSE SubSeq(done, 1, Len(done) - 1), Tail(rest))
       ELSE CleanFrom(Append(done, e), Tail(rest))
Clean(p) == CleanFrom(<<>>, p)
\* path.Join
Join(a, b, c) == Clean(a \o b \o c)

\* share := fmt.Sprintf("kubernetes-dynamic-pvc-%s", options.PVC.UID)
Share(uid) ==
  CASE uid = 1 -> "kubernetes-dynamic-pvc-uid1"
    [] OTHER -> "kubernetes-dynamic-pvc-uid2"
\* share := fmt.Sprintf("kubernetes-dynamic-pvc-%s", uuid.NewUUID()) of
\* vzstorage-pd: n is the number of the UUID drawn
pdShare(n) ==
  CASE n = 1 -> "kubernetes-dynamic-pvc-uuid1"
    [] n = 2 -> "kubernetes-dynamic-pvc-uuid2"
    [] n = 3 -> "kubernetes-dynamic-pvc-uuid3"
    [] OTHER -> "kubernetes-dynamic-pvc-uuid4"

\* ploopPath of createPloop
createPloopPath(mount, options) == Join(mount, options.volumePath, <<options.volumeID>>)

\* the volumePath of the options is left out
removePloopPath_noVolumePath(mount, options) == Join(mount, <<>>, <<options.volumeID>>)

\* ploopPath of removePloop
removePloopPath(mount, options) == Join(mount, options.volumePath, <<options.volumeID>>)

\* ploopPath of createPloop and path of Delete in vzstorage-pd, as the
\* directory the string names
pdPloopPath(mount, options) == Clean(mount \o options.volumePath \o <<options.volumeID>>)

\* Provision as far as the volume path goes: name is the clusterName of the
\* secret read by this call
pathProvision(w, uid, name, volumePath) ==
  /\ calls[w].pc = "idle"
  /\ ~InFlight(uid)
  /\ LET options == [volumePath |-> volumePath, volumeID |-> Share(uid), clusterName |-> name]
         ploopPath == createPloopPath(MountOf(name), options)
     IN /\ vols' = vols \cup {ploopPath}
        /\ calls' = [calls EXCEPT ![w] =
             [IdleCall EXCEPT !.pc = "done", !.op = "Provision", !.claim = uid, !.res = "ok",
                              !.name = name, !.dir = volumePath, !.path = ploopPath,
                              !.pv = [options |-> options, created |-> ploopPath]]]
  /\ UNCHANGED <<finalizers, images, mounts, tokClaim, handle, identity, ploop>>

\* Provision of vzstorage-pd as far as the volume path goes
pdPathProvision(w, uid, name, volumePath) ==
  /\ calls[w].pc = "idle"
  /\ ~InFlight(uid)
  /\ Len(tokClaim) < MaxTokens
  /\ LET options == [volumePath |-> volumePath, volumeID |-> pdShare(Len(tokClaim) + 1),
                     clusterName |-> name]
         ploopPath == pdPloopPath(MountOf(name), options)
     IN /\ vols' = vols \cup {ploopPath}
        /\ tokClaim' = Append(tokClaim, uid)
        /\ calls' = [calls EXCEPT ![w] =
             [IdleCall EXCEPT !.pc = "done", !.op = "Provision", !.claim = uid, !.res = "ok",
                              !.name = name, !.dir = volumePath, !.path = ploopPath,
                              !.pv = [options |-> options, created |-> ploopPath]]]
  /\ UNCHANGED <<finalizers, images, mounts, handle, identity, ploop>>

\* Delete of the PV of claim uid as far as the volume path goes: name is the
\* clusterName of the secret read by this call
pathDelete(w, uid, name) ==
  /\ calls[w].pc = "idle"
  /\ uid \in DOMAIN handle
  /\ ~InFlight(uid)
  /\ LET ploopPath == removePloopPath(MountOf(name), handle[uid].options)
         found == ploopPath \in vols
     IN /\ vols' = vols \ {ploopPath}
        /\ calls' = [calls EXCEPT ![w] =
             [IdleCall EXCEPT !.pc = "done", !.op = "Delete", !.claim = uid,
                              !.res = IF found THEN "ok" ELSE "err",
                              !.err = IF found THEN "none" ELSE "open",
                              !.volBefore = found,
                              !.name = name, !.path = ploopPath, !.pv = handle[uid]]]
  /\ UNCHANGED <<finalizers, images, mounts, tokClaim, handle, identity, ploop>>

\* Delete of vzstorage-pd as far as the volume path goes
pdPathDelete(w, uid, name) ==
  /\ calls[w].pc = "idle"
  /\ uid \in DOMAIN handle
  /\ ~InFlight(uid)
  /\ LET path == pdPloopPath(MountOf(name), handle[uid].options)
     IN /\ vols' = vols \ {path}
        /\ calls' = [calls EXCEPT ![w] =
             [IdleCall EXCEPT !.pc = "done", !.op = "Delete", !.claim = uid, !.res = "ok",
                              !.volBefore = path \in vols,
                              !.name = name, !.path = path, !.pv = handle[uid]]]
  /\ UNCHANGED <<finalizers, images, mounts, tokClaim, handle, identity, ploop>>

\* the controller takes the result of a finished call and stores the PV of a
\* Provision
pathReturn(w) ==
  /\ calls[w].pc = "done"
  /\ handle' = IF calls[w].op = "Provision"
               THEN [u \in DOMAIN handle \cup {calls[w].claim} |->
                       IF u = calls[w].claim THEN calls[w].pv ELSE handle[u]]
               ELSE handle
  /\ calls' = [calls EXCEPT ![w] = IdleCall]
  /\ UNCHANGED <<finalizers, vols, images, mounts, tokClaim, identity, ploop>>

\* ---- specification ----
\* uuid.NewUUID(): a value no earlier call returned
NewUUID == Len(tokClaim) + 1

Init ==
  /\ finalizers = <<>>
  /\ vols = {}
  /\ images = {}
  /\ mounts = 0
  /\ tokClaim = <<>>
  /\ handle = <<>>
  /\ calls = [w \in Workers |-> IdleCall]
  /\ identity = provisionerID
  /\ ploop = NoPloop

\* calls run one after the other
Next ==
  \/ \E w \in Serial, c \in Claims, modes \in {"none", "rwo", "other"}, selector \in BOOLEAN,
        capacity \in Capacities, volumePath \in BOOLEAN, attrs \in 0 .. MaxAttrs,
        getOk \in BOOLEAN :
       ProvisionStart(w, c, modes, selector, capacity, volumePath, attrs, {}, getOk)
  \/ \E w \in Serial, found \in BOOLEAN, io \in {"ok", "mkdirErr", "authErr", "mountErr"} :
       Mount(w, found, io)
  \/ \E w \in Serial, io \in {"ok", "mkdirErr", "createErr"}, failAt \in 0 .. MaxAttrs :
       ProvisionCreate(w, io, failAt)
  \/ \E w \in Serial, patchOk \in BOOLEAN, io \in {"ok", "openErr", "deleteErr"} :
       ProvisionRecord(w, NewUUID, patchOk, io)
  \/ \E w \in Serial, pv \in PVs, getOk \in BOOLEAN : DeleteStart(w, pv, getOk)
  \/ \E w \in Serial, io \in {"ok", "openErr", "deleteErr"} : DeleteRemove(w, io)
  \/ \E w \in Serial, patchOk \in BOOLEAN : DeleteClear(w, patchOk)
  \/ \E w \in Serial : Return(w)

Spec == Init /\ [][Next]_vars

\* calls of two workers interleave, the way the controller's goroutines do; the
\* requests are valid and the mount and volume calls succeed, a patch may fail
NextConc ==
  \/ \E w \in Workers, c \in Claims :
       ProvisionStart(w, c, "rwo", FALSE, Gibibyte, TRUE, 0, {}, TRUE)
  \/ \E w \in Workers, found \in BOOLEAN : Mount(w, found, "ok")
  \/ \E w \in Workers : ProvisionCreate(w, "ok", 0)
  \/ \E w \in Workers, patchOk \in BOOLEAN, io \in {"ok", "openErr"} :
       ProvisionRecord(w, NewUUID, patchOk, io)
  \/ \E w \in Workers, c \in DOMAIN handle : DeleteStart(w, handle[c], TRUE)
  \/ \E w \in Workers : DeleteRemove(w, "ok")
  \/ \E w \in Workers, patchOk \in BOOLEAN : DeleteClear(w, patchOk)
  \/ \E w \in Workers : Return(w)

SpecConc == Init /\ [][NextConc]_vars

\* serial calls with valid requests in which uuid.NewUUID() may return a value
\* it returned before, so that Provision can meet its token in the secret
NextUUID ==
  \/ \E w \in Serial, c \in Claims, attrs \in 0 .. MaxAttrs :
       ProvisionStart(w, c, "rwo", FALSE, Gibibyte, TRUE, attrs, {}, TRUE)
  \/ \E w \in Serial, found \in BOOLEAN : Mount(w, found, "ok")
  \/ \E w \in Serial : ProvisionCreate(w, "ok", 0)
  \/ \E w \in Serial, finalizer \in 1 .. NewUUID, patchOk \in BOOLEAN,
        io \in {"ok", "openErr", "deleteErr"} :
       ProvisionRecord(w, finalizer, patchOk, io)
  \/ \E w \in Serial, pv \in PVs : DeleteStart(w, pv, TRUE)
  \/ \E w \in Serial : DeleteRemove(w, "ok")
  \/ \E w \in Serial, patchOk \in BOOLEAN : DeleteClear(w, patchOk)
  \/ \E w \in Serial : Return(w)

SpecUUID == Init /\ [][NextUUID]_vars

\* the provisioner after a restart of its pod: the volume, the PV and the token
\* of claim 1 exist, the local path is no longer mounted
Restarted ==
  /\ finalizers = <<1>>
  /\ vols = {1}
  /\ images = {1}
  /\ mounts = 0
  /\ tokClaim = <<1>>
  /\ handle = [c \in {1} |->
                 [MakePV(c, AccessModes("rwo"), ProvisionOptions(Gibibyte, TRUE, 0, {}), 1)
                    EXCEPT !.opts.attrs = 0, !.opts.size = <<>>]]
  /\ calls = [w \in Workers |-> IdleCall]
  /\ identity = provisionerID
  /\ ploop = NoPloop

SpecRestarted == Restarted /\ [][Next]_vars

\* the further parameters of the storage classes: secretName, with any of the
\* other keys Provision does not set, alone or with one or all of those it sets
ParameterSets ==
  {{"secretName"} \cup K \cup E : K \in SUBSET (ParameterKeys \ (EngineKeys \cup {"secretName"})),
              E \in {{}, EngineKeys} \cup {{k} : k \in EngineKeys}}

\* serial calls for claims whose storage class carries further parameters; the
\* claims are valid, the secret is found and the mount succeeds
NextParams ==
  \/ \E w \in Serial, c \in Claims, attrs \in 0 .. MaxAttrs, extra \in ParameterSets :
       ProvisionStart(w, c, "rwo", FALSE, Gibibyte, TRUE, attrs, extra, TRUE)
  \/ \E w \in Serial, found \in BOOLEAN : Mount(w, found, "ok")
  \/ \E w \in Serial, io \in {"ok", "createErr"}, failAt \in 0 .. MaxAttrs :
       ProvisionCreate(w, io, failAt)
  \/ \E w \in Serial, patchOk \in BOOLEAN : ProvisionRecord(w, NewUUID, patchOk, "ok")
  \/ \E w \in Serial : Return(w)

SpecParams == Init /\ [][NextParams]_vars

\* the provisioner of virtuozzo-storage, its calls on concurrent goroutines;
\* the claims ask for [ReadWriteOnce]
NextVs ==
  \/ \E w \in Workers, c \in Claims, selector \in BOOLEAN, volumePath \in BOOLEAN,
        attrs \in 0 .. MaxAttrs, extra \in SUBSET {"other", "secretFromSystem"} :
       vsProvisionStart(w, c, "rwo", selector, volumePath, attrs, extra)
  \/ \E w \in Workers, io \in {"ok", "mkdirErr", "createErr"}, failAt \in 0 .. MaxAttrs :
       vsProvisionCreate(w, io, failAt)
  \/ \E w \in Workers, pv \in PVs, io \in {"ok", "removeErr"} : vsDelete(w, pv, io)
  \/ vsRestart
  \/ \E w \in Workers : Return(w)

SpecVs == Init /\ [][NextVs]_vars

\* the provisioner of src/unnamed/part_002, its calls one after another; the
\* claims ask for [ReadWriteOnce] and their storage class names the secret
NextP2 ==
  \/ \E w \in Serial, c \in Claims, selector \in BOOLEAN, volumePath \in BOOLEAN,
        attrs \in 0 .. MaxAttrs, extra \in {{"secretName"}, {"secretName", "other"}},
        getOk \in BOOLEAN :
       p2ProvisionStart(w, c, "rwo", selector, volumePath, attrs, extra, getOk)
  \/ \E w \in Serial, found \in BOOLEAN, io \in {"ok", "mkdirErr", "authErr", "mountErr"} :
       Mount(w, found, io)
  \/ \E w \in Serial, io \in {"ok", "mkdirErr", "createErr"}, failAt \in 0 .. MaxAttrs :
       p2ProvisionCreate(w, io, failAt)
  \/ \E w \in Serial, pv \in PVs, io \in {"ok", "prepareErr", "removeErr"} : p2Delete(w, pv, io)
  \/ \E w \in Serial : Return(w)

SpecP2 == Init /\ [][NextP2]_vars

\* the flexvolume driver, run by the kubelet once for each call
NextFlex ==
  \/ \E w \in Serial, v \in Claims, rw \in {"rw", "ro"}, cluster \in BOOLEAN,
        passwd \in BOOLEAN, found \in BOOLEAN,
        pio \in {"ok", "mkdirErr", "authErr", "mountErr"},
        io \in {"ok", "mkdirTargetErr", "decodeErr", "openErr", "ploopMountErr"} :
       flexMount(w, v, rw, cluster, passwd, found, pio, io)
  \/ \E w \in Serial, v \in Claims, io \in {"ok", "umountErr"} : flexUnmount(w, v, io)
  \/ \E w \in Serial : Return(w)

SpecFlex == Init /\ [][NextFlex]_vars

\* the volume paths of concurrent calls; the secret's clusterName may change
\* from one call to the next
NextPath ==
  \/ \E w \in Workers, uid \in Claims, name \in ClusterNames, volumePath \in VolumePaths :
       pathProvision(w, uid, name, volumePath)
  \/ \E w \in Workers, uid \in Claims, name \in ClusterNames : pathDelete(w, uid, name)
  \/ \E w \in Workers : pathReturn(w)

SpecPath == Init /\ [][NextPath]_vars

\* the same for the provisioner of vzstorage-pd
NextPdPath ==
  \/ \E w \in Workers, uid \in Claims, name \in ClusterNames, volumePath \in VolumePaths :
       pdPathProvision(w, uid, name, volumePath)
  \/ \E w \in Workers, uid \in Claims, name \in ClusterNames : pdPathDelete(w, uid, name)
  \/ \E w \in Workers : pathReturn(w)

SpecPdPath == Init /\ [][NextPdPath]_vars

\* the provisioner of vzstorage-pd, its calls on concurrent goroutines; the
\* claims ask for [ReadWriteOnce]
NextPd ==
  \/ \E w \in Workers, c \in Claims, selector \in BOOLEAN, volumePath \in BOOLEAN,
        attrs \in 0 .. MaxAttrs, getOk \in BOOLEAN :
       pdProvisionStart(w, c, "rwo", selector, volumePath, attrs, getOk)
  \/ \E w \in Workers, found \in BOOLEAN, io \in {"ok", "mkdirErr", "authErr", "mountErr"} :
       Mount(w, found, io)
  \/ \E w \in Workers, io \in {"ok", "mkdirErr", "createErr"}, failAt \in 0 .. MaxAttrs :
       pdProvisionCreate(w, io, failAt)
  \/ \E w \in Workers, pv \in PVs, getOk \in BOOLEAN : pdDeleteStart(w, pv, getOk)
  \/ \E w \in Workers, io \in {"ok", "removeErr"} : pdDeleteRemove(w, io)
  \/ \E w \in Workers : Return(w)

SpecPd == Init /\ [][NextPd]_vars

\* ---- createPloop on its own ----
\* size strings createPloop is given: none, unparseable ones, decimal byte
\* counts as Provision writes them, and sizes with a unit
Sizes ==
  {<<>>, <<"a", "b", "c">>, <<"G">>, <<"1", "0", "G">>, <<"1", "0", "G", "i">>,
   <<"1", "0", " ", "G", "B">>, <<"1", "K", "i">>}
  \cup {Sprintf(n) : n \in Capacities \cup {1023, 1024}}

CreatePloopOptions ==
  {[NoOpts EXCEPT !.volumePath = volumePath, !.volumeID = volumeID, !.size = size,
                  !.attrs = attrs] :
     volumePath \in BOOLEAN, volumeID \in BOOLEAN, size \in Sizes, attrs \in 0 .. MaxAttrs}

\* a call of createPloop(mount, options) on the mounted cluster, for a volume
\* that does not exist
InitSize ==
  /\ identity = provisionerID
  /\ ploop = NoPloop
  /\ finalizers = <<>>
  /\ vols = {}
  /\ images = {}
  /\ mounts = 1
  /\ tokClaim = <<>>
  /\ handle = <<>>
  /\ \E opts \in CreatePloopOptions :
       calls = [w \in Workers |->
                  IF w \in Serial
                  THEN [IdleCall EXCEPT !.pc = "create", !.op = "createPloop", !.claim = 1,
                                        !.opts = opts, !.mntBefore = 1]
                  ELSE IdleCall]

NextSize ==
  \E w \in Serial, io \in {"ok", "mkdirErr", "createErr"}, failAt \in 0 .. MaxAttrs :
    ProvisionCreate(w, io, failAt)

SpecSize == InitSize /\ [][NextSize]_vars

TypeOK ==
  /\ Range(finalizers) \subseteq 1 .. Len(tokClaim)
  /\ vols \subseteq Claims
  /\ images \subseteq Claims
  /\ mounts \in 0 .. Cardinality(Workers)
  /\ Len(tokClaim) <= MaxTokens
  /\ DOMAIN handle \subseteq Claims

\* ---- properties ----
Done(w, op) == calls[w].pc = "done" /\ calls[w].op = op
AllIdle == \A w \in Workers : calls[w].pc = "idle"
\* the patch that adds the token was sent and refused
PatchFailed(w) == Done(w, "Provision") /\ calls[w].err \in {"patch", "patch+cleanup"}

\* C1: when Delete of a PV returned by a successful Provision returns nil, the
\* PV's finalizer token is no longer in the secret's finalizer list
C1_DeleteClearsToken ==
  \A w \in Workers :
    (Done(w, "Delete") /\ calls[w].res = "ok" /\ calls[w].claim \in DOMAIN handle
       /\ calls[w].pv = handle[calls[w].claim])
    => calls[w].pv.opts.finalizer \notin Range(finalizers)

\* C2: when Provision returns a PV, the secret's finalizer list holds the token
\* in the PV's options["finalizer"] exactly once
C2_ProvisionRecordsToken ==
  \A w \in Workers :
    (Done(w, "Provision") /\ calls[w].res = "ok")
    => /\ calls[w].pv.opts.hasFinalizer
       /\ Count(calls[w].pv.opts.finalizer, finalizers) = 1
C2_Witness ==
  \E w \in Workers :
    /\ Done(w, "Provision") /\ calls[w].res = "ok"
    /\ Len(finalizers) = 2
    /\ finalizers[2] = calls[w].pv.opts.finalizer

C4_DeleteToleratesMissingVolume ==
  \A w \in Workers :
    (Done(w, "Delete") /\ ~calls[w].volBefore /\ ~calls[w].imgBefore
       /\ calls[w].pv.opts.hasFinalizer
       /\ calls[w].pv.opts.finalizer \notin Range(calls[w].secret)
       /\ calls[w].trace # <<>>
       /\ calls[w].trace[Len(calls[w].trace)] = "open")
    => /\ calls[w].res = "ok"
       /\ calls[w].pv.opts.finalizer \notin Range(finalizers)

\* C5: Delete of a PV whose owner annotation is present and differs from
\* *provisionerID returns IgnoredError and attempts no external action
C5_OwnershipGating ==
  \A w \in Workers :
    (Done(w, "Delete") /\ calls[w].pv.owner \notin {"none", provisionerID})
    => calls[w].res = "ignored" /\ calls[w].trace = <<>>
\* another provisioner's PV was refused while its volume and token exist
C5_Witness ==
  \E w \in Workers :
    /\ Done(w, "Delete") /\ calls[w].pv.owner = "other"
    /\ calls[w].res = "ignored"
    /\ calls[w].claim \in vols
    /\ calls[w].pv.opts.hasFinalizer
    /\ calls[w].pv.opts.finalizer \in Range(finalizers)

C8_FullCompensation ==
  \A w \in Workers :
    (Done(w, "Provision") /\ calls[w].res = "err")
    => /\ (~calls[w].volBefore => calls[w].claim \notin vols)
       /\ (~calls[w].imgBefore => calls[w].claim \notin images)
       /\ Cardinality(TokensOf(calls[w].claim, finalizers)) <= calls[w].recBefore

\* C9: with no call in flight, each token is in the finalizer list at most
\* once, each existing volume has exactly one token in the list, and each
\* token in the list belongs to an existing volume
C9_TokenVolumeCorrespondence ==
  AllIdle
  => /\ \A i \in 1 .. Len(finalizers) : Count(finalizers[i], finalizers) = 1
     /\ \A c \in vols : Cardinality(TokensOf(c, finalizers)) = 1
     /\ \A i \in 1 .. Len(finalizers) : tokClaim[finalizers[i]] \in vols

\* C10: when Delete's patch is accepted, the finalizer list is the list it
\* found with the PV's token removed and every other token kept
C10_ClearRemovesExactlyTheToken ==
  \A w \in Workers :
    (Done(w, "Delete") /\ calls[w].patched)
    => finalizers = SelectSeq(calls[w].before, LAMBDA t : t # calls[w].pv.opts.finalizer)

\* both calls have had their patch accepted, and each read the secret before
\* the other's patch reached it
PatchedConcurrently(w1, w2) ==
  /\ w1 # w2
  /\ calls[w1].pc = "done" /\ calls[w1].patched
  /\ calls[w2].pc = "done" /\ calls[w2].patched
  /\ calls[w1].secret = calls[w2].secret

\* C11: when a Provision and another Provision or a Delete of another handle
\* patch the same secret concurrently and both patches are accepted, the
\* finalizer list holds every token added and not the token cleared
C11_ConcurrentPatchesMerge ==
  \A w1, w2 \in Workers :
    (PatchedConcurrently(w1, w2) /\ calls[w1].op = "Provision")
    => \A w \in {w1, w2} :
         /\ calls[w].op = "Provision" => calls[w].pv.opts.finalizer \in Range(finalizers)
         /\ calls[w].op = "Delete" => calls[w].pv.opts.finalizer \notin Range(finalizers)

MountSteps == {"mkdir", "bind", "auth", "mount"}

\* C12: prepareVstorage called for a cluster that an earlier call has mounted
\* creates no directory, does not authenticate and does not mount: calls made
\* one after the other leave one mount on the local path
C12_MountIdempotent ==
  /\ mounts <= 1
  /\ \A w \in Workers :
       (calls[w].pc # "idle" /\ calls[w].mntBefore > 0)
       => /\ Range(calls[w].trace) \cap MountSteps = {}
          /\ mounts = calls[w].mntBefore
\* a second call found the mount of the first and went on to use it
C12_Witness ==
  \E w \in Workers :
    /\ calls[w].pc = "done" /\ calls[w].res = "ok"
    /\ calls[w].mntBefore = 1 /\ mounts = 1
    /\ "get" \in Range(calls[w].trace)
    /\ Range(calls[w].trace) \cap MountSteps = {}

\* the call found the local path unmounted and has been through the mounting
\* part of prepareVstorage
MountedItself(w) ==
  /\ calls[w].pc \notin {"idle", "mount"}
  /\ calls[w].mntBefore = 0
  /\ "mkdir" \in Range(calls[w].trace)

\* C13: when two concurrent calls both find the cluster unmounted and both go
\* on to mount it, the local path carries one mount of the cluster and neither
\* call returns a mount error
C13_ConcurrentFirstMount ==
  \A w1, w2 \in Workers :
    (w1 # w2 /\ MountedItself(w1) /\ MountedItself(w2))
    => /\ mounts = 1
       /\ calls[w1].err \notin {"mkdir", "auth", "mount"}
       /\ calls[w2].err \notin {"mkdir", "auth", "mount"}

\* C14: a cluster that is mounted on its local path stays mounted there: no
\* step of a Provision or Delete call, its return included, unmounts it
C14_NeverUnmounts == [][mounts > 0 => mounts' > 0]_vars

\* the call has prepareVstorage behind it and has not returned
UsingMount(w) == calls[w].pc \in {"create", "record", "remove", "clear", "pdcreate", "pdremove"}

\* C15: while a call is between its successful prepareVstorage and its return,
\* the cluster is mounted on the local path, whatever concurrent calls do
C15_MountStaysAvailable ==
  \A w \in Workers : UsingMount(w) => mounts > 0

CreatePloopReturned(w) == calls[w].op = "createPloop" /\ calls[w].pc \in {"record", "done"}
RequiredOptions(opts) == opts.volumePath /\ opts.volumeID /\ opts.size # <<>>

\* C17: createPloop given a size that does not parse returns an error without
\* creating a directory or a volume, and calls PloopVolumeCreate with no size
C17_UnparseableSizeRejected ==
  \A w \in Workers :
    (CreatePloopReturned(w) /\ RequiredOptions(calls[w].opts)
       /\ ParseBytes(calls[w].opts.size).err)
    => /\ calls[w].pc = "done" /\ calls[w].res = "err"
       /\ calls[w].trace = <<>>
       /\ calls[w].volumeSize = -1
       /\ vols = {} /\ images = {}

AllDigits(size) == size # <<>> /\ \A i \in 1 .. Len(size) : IsDigit(size[i])

\* C18 as stated: the size PloopVolumeCreate is called with is the byte count
\* divided by 1024; "10G" gives 10,485,760 and the decimal string of 1Gi
\* (1,073,741,824) gives 1,048,576
C18_SizeNormalization ==
  \A w \in Workers :
    (CreatePloopReturned(w) /\ calls[w].volumeSize # -1)
    => /\ AllDigits(calls[w].opts.size)
            => calls[w].volumeSize = ParseFloat(calls[w].opts.size) \div 1024
       /\ calls[w].opts.size = <<"1", "0", "G">> => calls[w].volumeSize = 10485760
       /\ calls[w].opts.size = Sprintf(1073741824) => calls[w].volumeSize = 1048576
\* C18 as amended: the size PloopVolumeCreate is called with is the byte count
\* divided by 1024; "10G" is 10 * 10^9 bytes and gives 9,765,625, "10Gi" gives
\* 10,485,760, and the decimal string of 1Gi gives 1,048,576
C18_SizeNormalizationSI ==
  \A w \in Workers :
    (CreatePloopReturned(w) /\ calls[w].volumeSize # -1)
    => /\ AllDigits(calls[w].opts.size)
            => calls[w].volumeSize = ParseFloat(calls[w].opts.size) \div 1024
       /\ calls[w].opts.size = <<"1", "0", "G">> => calls[w].volumeSize = 9765625
       /\ calls[w].opts.size = <<"1", "0", "G", "i">> => calls[w].volumeSize = 10485760
       /\ calls[w].opts.size = Sprintf(1073741824) => calls[w].volumeSize = 1048576
C18_Witness ==
  \E w \in Workers :
    /\ CreatePloopReturned(w) /\ calls[w].pc = "record"
    /\ calls[w].opts.size = <<"1", "0", "G">>
    /\ calls[w].volumeSize = 9765625
    /\ "create" \in Range(calls[w].trace)

\* C19: PloopVolumeCreate is never called with size 0; Provision of a claim
\* whose capacity is 0 bytes returns an error and does not call it
C19_PositiveSize ==
  \A w \in Workers :
    /\ calls[w].volumeSize # 0
    /\ (Done(w, "Provision") /\ calls[w].opts.size = Sprintf(0))
         => (calls[w].res = "err" /\ "create" \notin Range(calls[w].trace))

\* C20: createPloop called without volumePath, volumeID or size returns an
\* error, creates no directory and no volume and makes no set-attr call
C20_RequiredParameters ==
  \A w \in Workers :
    (CreatePloopReturned(w) /\ ~RequiredOptions(calls[w].opts))
    => /\ calls[w].pc = "done" /\ calls[w].res = "err"
       /\ calls[w].err \in {"volumePath", "volumeID", "size"}
       /\ calls[w].trace = <<>>
       /\ calls[w].volumeSize = -1
       /\ vols = {} /\ images = {}
\* only the size is missing
C20_Witness ==
  \E w \in Workers :
    /\ CreatePloopReturned(w)
    /\ calls[w].opts.volumePath /\ calls[w].opts.volumeID /\ calls[w].opts.size = <<>>
    /\ calls[w].res = "err" /\ calls[w].err = "size"
    /\ calls[w].trace = <<>>

\* C21: when the token Provision is about to record is already in the finalizer
\* list it read from the secret, Provision sends no patch to the secret and
\* returns success
C21_RecordIdempotent ==
  \A w \in Workers :
    (/\ Done(w, "Provision")
     /\ calls[w].pv.opts.hasFinalizer
     /\ calls[w].pv.opts.finalizer \in Range(calls[w].secret))
    => /\ calls[w].res = "ok"
       /\ ~calls[w].patched
       /\ "patch" \notin Range(calls[w].trace)

C21_Witness ==
  \E w \in Workers :
    /\ Done(w, "Provision")
    /\ calls[w].res = "ok"
    /\ calls[w].pv.opts.hasFinalizer
    /\ calls[w].pv.opts.finalizer \in Range(calls[w].secret)
    /\ calls[w].claim \in vols

\* the volume removal of the Delete call of w succeeded
Removed(w) ==
  /\ Done(w, "Delete")
  /\ "delete" \in Range(calls[w].trace)
  /\ calls[w].err # "delete"

\* the options Delete was given name no token, or one the secret does not hold
ObligationAbsent(w) ==
  \/ ~calls[w].opts.hasFinalizer
  \/ calls[w].opts.finalizer \notin Range(calls[w].secret)

\* C22: when the options of the handle have no finalizer entry, or the token
\* is not in the secret's finalizer list, Delete, having removed the volume,
\* sends no patch, leaves the secret as it read it and returns success
C22_ClearAbsentBenign ==
  \A w \in Workers :
    (Removed(w) /\ ObligationAbsent(w))
    => /\ calls[w].res = "ok"
       /\ "patch" \notin Range(calls[w].trace)
       /\ ~calls[w].patched
       /\ finalizers = calls[w].secret

C22_Witness ==
  \E w \in Workers :
    /\ Removed(w)
    /\ ObligationAbsent(w)
    /\ calls[w].res = "ok"
    /\ calls[w].secret # <<>>

\* both cases of C22 occur: no finalizer entry, and a token the list lost
C22_WitnessNoEntry ==
  \E w \in Workers : Removed(w) /\ ~calls[w].opts.hasFinalizer /\ calls[w].secret # <<>>

C22_WitnessTokenGone ==
  \E w \in Workers :
    /\ Removed(w)
    /\ calls[w].opts.hasFinalizer
    /\ calls[w].opts.finalizer \notin Range(calls[w].secret)

\* every step of A in trace t comes before every step of B
TraceOrdered(t, A, B) ==
  \A i, j \in 1 .. Len(t) : (t[i] \in A /\ t[j] \in B) => i < j

MountErrors == {"mkdir", "auth", "mount"}
CreateErrors == {"volumePath", "volumeID", "size", "mkdirDeltas", "create", "setattr"}

\* C23: in a Provision call the cluster is mounted before the volume is created
\* and the token is patched into the secret only after the volume was created;
\* in a Delete call the ownership check comes before the mount, the mount
\* before the volume removal, and the token is cleared only after the removal
\* succeeded; when a phase failed no later phase ran
C23_PhaseOrdering ==
  \A w \in Workers :
    LET t == calls[w].trace
        steps == Range(t)
    IN /\ calls[w].op = "Provision" =>
            /\ TraceOrdered(t, {"get"}, MountSteps)
            /\ TraceOrdered(t, MountSteps, {"mkdirDeltas", "create", "setattr"})
            /\ TraceOrdered(t, {"mkdirDeltas", "create", "setattr"}, {"patch"})
            /\ "create" \in steps => mounts > 0
            /\ "patch" \in steps => ("create" \in steps /\ "removeAll" \notin steps)
            /\ calls[w].err = "get" => t = <<"get">>
            /\ calls[w].err \in MountErrors => steps \subseteq {"get"} \cup MountSteps
            /\ calls[w].err \in CreateErrors => "patch" \notin steps
       /\ calls[w].op = "Delete" =>
            /\ t # <<>> => DeleteCheck(calls[w].pv) = "ok"
            /\ TraceOrdered(t, {"get"}, MountSteps)
            /\ TraceOrdered(t, MountSteps, {"open", "delete"})
            /\ TraceOrdered(t, {"open", "delete"}, {"patch"})
            /\ "open" \in steps => mounts > 0
            /\ "patch" \in steps => ("delete" \in steps /\ calls[w].claim \notin vols)
            /\ calls[w].err = "get" => t = <<"get">>
            /\ calls[w].err \in MountErrors => steps \subseteq {"get"} \cup MountSteps
            /\ calls[w].err \in {"open", "delete"} => "patch" \notin steps

\* a Delete that mounted the cluster, removed the volume and cleared the token,
\* while a volume Provision created after mounting exists
C23_Witness ==
  \E w \in Workers :
    /\ Done(w, "Delete")
    /\ calls[w].trace = <<"get", "mkdir", "auth", "mount", "open", "delete", "patch">>
    /\ calls[w].patched

\* a Provision that went through all its phases after a mount of its own
C23_WitnessProvision ==
  \E w \in Workers :
    /\ Done(w, "Provision") /\ calls[w].res = "ok"
    /\ {"bind", "create", "patch"} \subseteq Range(calls[w].trace)

ProvisionOps == {"Provision", "pdProvision", "vsProvision", "p2Provision"}

\* C24: a parameter key that the code does not know is ignored, not rejected:
\* a Provision request that carries one is not refused for it, and the key
\* causes no set-attr call
C24_UnknownKeysIgnored ==
  \A w \in Workers :
    (/\ calls[w].pc = "done"
     /\ calls[w].op \in ProvisionOps
     /\ "other" \in calls[w].req.extra)
    => /\ calls[w].err \notin {"invalidOption", "unknownOption"}
       /\ Count("setattr", calls[w].trace) <= calls[w].opts.attrs

\* createPloop of the provisioner with the finalizers does the same with and
\* without the unknown key, whatever the outcome of its external calls
C24_IgnoredByCreatePloop ==
  \A w \in Workers :
    (calls[w].pc = "create" /\ "other" \in calls[w].opts.given)
    => \A io \in {"ok", "mkdirErr", "createErr"}, failAt \in 0 .. calls[w].opts.attrs :
         createPloop(vols, images, calls[w].claim, calls[w].opts, io, failAt)
           = createPloop(vols, images, calls[w].claim,
                         [calls[w].opts EXCEPT !.given = @ \ {"other"}], io, failAt)

\* C25: Provision looks the secret up in the namespace of the claim, unless the
\* storage class has the parameter secretFromSystem set to "true": then it
\* looks the secret up in the namespace kube-system
C25_CredentialNamespace ==
  \A w \in Workers :
    (calls[w].op = "Provision" /\ "get" \in Range(calls[w].trace))
    => calls[w].ns = IF "secretFromSystem" \in calls[w].req.extra THEN "kube-system"
                     ELSE "claim"

\* C26 as claimed: every parameter of the storage class other than secretName
\* is in the options of the PV a successful Provision returns, with the value
\* the storage class gave
C26_ParametersPassThrough ==
  \A w \in Workers :
    (Done(w, "Provision") /\ calls[w].res = "ok")
    => /\ calls[w].pv.opts.given = calls[w].req.extra \ {"secretName"}
       /\ calls[w].pv.opts.volumePath
       /\ calls[w].pv.opts.attrs = calls[w].opts.attrs

\* C26: every parameter of the storage class other than secretName and other
\* than the keys Provision sets itself (volumeID, size, clusterName, finalizer)
\* is in the options of the PV a successful Provision returns, with the value
\* the storage class gave
C26_ParametersPassThroughButEngineKeys ==
  \A w \in Workers :
    (Done(w, "Provision") /\ calls[w].res = "ok")
    => /\ calls[w].pv.opts.given = calls[w].req.extra \ (EngineKeys \cup {"secretName"})
       /\ calls[w].pv.opts.volumePath
       /\ calls[w].pv.opts.attrs = calls[w].opts.attrs

C26_Witness ==
  \E w \in Workers :
    /\ Done(w, "Provision") /\ calls[w].res = "ok"
    /\ {"other", "secretFromSystem", "size"} \subseteq calls[w].req.extra
    /\ calls[w].pv.opts.given = {"other", "secretFromSystem"}
    /\ calls[w].pv.opts.attrs > 0

\* C27: each vzs* key of the options causes one set-attr call on the volume
\* path, issued only after the volume-creation call succeeded, and no other
\* key causes one: a call that returned a PV made as many set-attr calls as its
\* options have vzs* keys, all of them after the creation call
C27_AttributesAfterCreate ==
  \A w \in Workers :
    LET t == calls[w].trace IN
    calls[w].op \in ProvisionOps
    => /\ TraceOrdered(t, {"create"}, {"setattr"})
       /\ "setattr" \in Range(t) => "create" \in Range(t)
       /\ (calls[w].pc = "done" /\ calls[w].res = "ok")
            => Count("setattr", t) = calls[w].opts.attrs

VolumeSteps == {"mkdirDeltas", "create", "setattr", "removeAll", "open", "delete"}

\* C28: when the local path is not mounted and Mountpoint() finds a mount of
\* the cluster, prepareVstorage bind-mounts it onto the local path and calls
\* neither Auth nor Mount
C28_BindInsteadOfAuth ==
  \A w \in Workers :
    calls[w].found = "yes"
    => /\ calls[w].mntBefore = 0
       /\ Count("bind", calls[w].trace) = 1
       /\ "auth" \notin Range(calls[w].trace)
       /\ "mount" \notin Range(calls[w].trace)

\* a Delete that bind-mounted the cluster and went on to remove the volume
C28_Witness ==
  \E w \in Workers :
    /\ Done(w, "Delete") /\ calls[w].res = "ok"
    /\ calls[w].found = "yes"
    /\ "bind" \in Range(calls[w].trace)

\* C29: when Mountpoint() finds no mount of the cluster, prepareVstorage calls
\* Auth first and Mount only after Auth succeeded; when Auth fails the call
\* returns that error, Mount is not tried, and the Provision or Delete call
\* changes neither a volume nor the secret
C29_AuthBeforeMount ==
  \A w \in Workers :
    LET t == calls[w].trace IN
    calls[w].found = "no"
    => /\ Count("auth", t) = 1
       /\ "bind" \notin Range(t)
       /\ TraceOrdered(t, {"auth"}, {"mount"})
       /\ calls[w].err = "auth"
            => /\ calls[w].res = "err"
               /\ "mount" \notin Range(t)
               /\ Range(t) \cap (VolumeSteps \cup {"patch"}) = {}
               /\ (calls[w].claim \in vols) = calls[w].volBefore
               /\ (calls[w].claim \in images) = calls[w].imgBefore
               /\ finalizers = calls[w].secret
               /\ mounts = calls[w].mntBefore

\* a Delete refused by Auth while its volume and its token exist
C29_Witness ==
  \E w \in Workers :
    /\ Done(w, "Delete")
    /\ calls[w].err = "auth"
    /\ calls[w].found = "no"
    /\ calls[w].volBefore
    /\ finalizers # <<>>

\* the phases of a call in the order the code goes through them
Rank(pc) ==
  CASE pc = "idle" -> 0
    [] pc = "mount" -> 1
    [] pc \in {"create", "remove"} -> 2
    [] pc \in {"record", "clear"} -> 3
    [] OTHER -> 4

\* trace t holds at most one attempt at each external action: one secret read,
\* one mount or bind mount, one volume creation, one removal, one patch
AttemptsOnce(t) ==
  /\ Count("get", t) <= 1
  /\ Count("mkdir", t) <= 1
  /\ Count("auth", t) <= 1
  /\ Count("bind", t) + Count("mount", t) <= 1
  /\ Count("mkdirDeltas", t) <= 1
  /\ Count("create", t) <= 1
  /\ Count("removeAll", t) <= 1
  /\ Count("open", t) <= 1
  /\ Count("delete", t) <= 1
  /\ Count("patch", t) <= 1

\* C30: a Provision or Delete call makes at most one attempt at each external
\* action and then returns: every step of a call takes it to a later phase
\* (so a call returns after at most four steps, each of them one batch of
\* external calls), and no external action occurs twice in its trace
C30_NoRetry ==
  [][\A w \in Workers :
       (calls'[w] # calls[w] /\ calls[w].pc # "done")
       => /\ Rank(calls'[w].pc) > Rank(calls[w].pc)
          /\ AttemptsOnce(calls'[w].trace)
          /\ calls'[w].op = "Delete" => "create" \notin Range(calls'[w].trace)]_vars

\* a Provision that went through every external action once, the compensating
\* removal included
C30_Witness ==
  \E w \in Workers :
    /\ Done(w, "Provision")
    /\ calls[w].trace = <<"get", "mkdir", "auth", "mount", "mkdirDeltas", "create",
                           "patch", "open", "delete">>

DeleteOps == {"Delete", "pdDelete", "vsDelete", "p2Delete"}

\* the PV has no owner annotation, or ours and no share annotation
Malformed(pv) == pv.owner = "none" \/ (pv.owner = provisionerID /\ ~pv.share)

\* C31: Delete of a PV with no owner annotation, or with our owner annotation
\* and no share annotation, returns a plain error (not the ignorable one) and
\* reads no secret, mounts nothing, removes no volume and patches no secret
C31_MalformedHandleNoEffect ==
  \A w \in Workers :
    (calls[w].op \in DeleteOps /\ Malformed(calls[w].pv))
    => /\ calls[w].pc = "done"
       /\ calls[w].res = "err"
       /\ calls[w].err \in {"noOwnerAnn", "noShareAnn"}
       /\ calls[w].trace = <<>>
       /\ ~calls[w].patched
       /\ (calls[w].claim \in vols) = calls[w].volBefore
       /\ mounts = calls[w].mntBefore

\* a PV of ours without share annotation refused while its volume and its
\* token exist
C31_Witness ==
  \E w \in Workers :
    /\ Done(w, "Delete")
    /\ calls[w].pv.owner = provisionerID /\ ~calls[w].pv.share
    /\ calls[w].err = "noShareAnn"
    /\ calls[w].claim \in vols
    /\ calls[w].pv.opts.hasFinalizer
    /\ calls[w].pv.opts.finalizer \in Range(finalizers)

\* C32: when the secret read fails, Provision and Delete return that error and
\* mount no cluster, create or remove no volume and patch no secret
C32_LookupFailureNoEffect ==
  \A w \in Workers :
    calls[w].got = "failed"
    => /\ calls[w].pc = "done"
       /\ calls[w].res = "err"
       /\ calls[w].err = "get"
       /\ calls[w].trace = <<"get">>
       /\ ~calls[w].patched
       /\ (calls[w].claim \in vols) = calls[w].volBefore
       /\ (calls[w].claim \in images) = calls[w].imgBefore
       /\ mounts = calls[w].mntBefore
       /\ Cardinality(TokensOf(calls[w].claim, finalizers)) = calls[w].recBefore

\* a Delete of an existing volume whose secret read fails before anything is
\* mounted
C32_Witness ==
  \E w \in Workers :
    /\ Done(w, "Delete")
    /\ calls[w].got = "failed"
    /\ calls[w].err = "get"
    /\ calls[w].claim \in vols
    /\ mounts = 0

\* C33: whenever the volume removal succeeded Delete returns nil, also when
\* the patch that removes the token from the secret fails: the failed clear is
\* not reported to the caller
C33_DeleteIgnoresClearOutcome ==
  \A w \in Workers : Removed(w) => (calls[w].res = "ok" /\ calls[w].err = "none")

\* a Delete that removed the volume, whose patch failed, and that returned nil
\* with the token still in the secret
C33_Witness ==
  \E w \in Workers :
    /\ Removed(w)
    /\ "patch" \in Range(calls[w].trace)
    /\ ~calls[w].patched
    /\ calls[w].res = "ok"
    /\ calls[w].opts.finalizer \in Range(finalizers)

\* C34: the path Delete opens for a PV is the path at which Provision made the
\* PV's volume, provided the clusterName of the secret is the one Provision
\* read; and the path Delete removes ends in the PV's volume ID, so it is never
\* the path of a volume with another ID
C34_PathRoundTrip ==
  \A w \in Workers :
    Done(w, "Delete")
    => LET pv == calls[w].pv IN
       /\ calls[w].name = pv.options.clusterName => calls[w].path = pv.created
       /\ calls[w].path[Len(calls[w].path)] = pv.options.volumeID
       /\ \A u \in DOMAIN handle :
            handle[u].options.volumeID # pv.options.volumeID
            => calls[w].path # handle[u].created

\* a Delete that removed the volume of its PV, made under a volumePath that
\* path.Join rewrites, while the volume of the other claim stays
C34_Witness ==
  \E w \in Workers :
    /\ Done(w, "Delete") /\ calls[w].res = "ok"
    /\ calls[w].pv.options.volumePath = <<"k8s", "sub", "..">>
    /\ calls[w].path = calls[w].pv.created
    /\ \E u \in DOMAIN handle : u # calls[w].claim /\ handle[u].created \in vols

\* two Provision calls, given by claim, cluster name, volumePath and the path
\* they made the volume at, target the same path exactly when they are for
\* the same claim
SamePathIffSameClaim(uid1, path1, uid2, path2) == (path1 = path2) <=> (uid1 = uid2)

\* C35: the volume ID is derived from the UID of the claim: under the same
\* cluster and volumePath, a Provision for a claim targets the path the
\* earlier Provision for that claim targeted, and Provision calls for two
\* different claims never target the same path, also when they run
\* concurrently
C35_VolumeIdentity ==
  \A w \in Workers :
    Done(w, "Provision")
    => /\ \A u \in DOMAIN handle :
            (/\ handle[u].options.clusterName = calls[w].name
             /\ handle[u].options.volumePath = calls[w].dir)
            => SamePathIffSameClaim(calls[w].claim, calls[w].path, u, handle[u].created)
       /\ \A x \in Workers :
            (/\ Done(x, "Provision")
             /\ calls[x].name = calls[w].name
             /\ calls[x].dir = calls[w].dir)
            => SamePathIffSameClaim(calls[w].claim, calls[w].path,
                                    calls[x].claim, calls[x].path)

\* a second Provision for a claim, and a concurrent Provision for the other
\* claim, under the cluster and volumePath of the first
C35_WitnessRetry ==
  \E w, x \in Workers :
    /\ w # x
    /\ Done(w, "Provision") /\ Done(x, "Provision")
    /\ calls[w].claim \in DOMAIN handle
    /\ handle[calls[w].claim].options.clusterName = calls[w].name
    /\ handle[calls[w].claim].options.volumePath = calls[w].dir
    /\ calls[x].name = calls[w].name /\ calls[x].dir = calls[w].dir

\* C36: every PV returned by a successful Provision has the identity of the
\* provisioner in its owner annotation, and Delete of such a PV by the
\* provisioner never returns the "not ours" outcome, also after the process of
\* the provisioner was restarted between Provision and Delete
C36_OwnershipRoundTrip ==
  \A w \in Workers :
    /\ (calls[w].pc = "done" /\ calls[w].op \in ProvisionOps /\ calls[w].res = "ok")
         => calls[w].pv.owner = identity
    /\ (/\ calls[w].pc = "done"
        /\ calls[w].op \in DeleteOps
        /\ calls[w].claim \in DOMAIN handle
        /\ calls[w].pv.owner = handle[calls[w].claim].owner)
         => calls[w].res # "ignored"

\* C37: the options of the PV a successful Provision returns hold neither the
\* cluster password nor the key secretName; of the values read from the
\* secret they hold clusterName and no other
C37_CredentialsOutOfHandle ==
  \A w \in Workers :
    (calls[w].pc = "done" /\ calls[w].op \in ProvisionOps /\ calls[w].res = "ok")
    => /\ "secretName" \notin calls[w].pv.opts.given
       /\ "clusterPassword" \notin calls[w].pv.opts.fromSecret
       /\ calls[w].pv.opts.fromSecret \subseteq {"clusterName"}
C37_Witness ==
  \E w \in Workers :
    /\ Done(w, "Provision") /\ calls[w].res = "ok"
    /\ "secretName" \in calls[w].req.extra
    /\ calls[w].pv.opts.fromSecret = {"clusterName"}
    /\ "other" \in calls[w].pv.opts.given

\* the ploop mounts issued by a Mount call with trace t, and by the Mount call
\* before it whose outcome is first
IssuedBy(t) == Count("ploopMount", t)
IssuedByFirst(first) == IF first \in {"ok", "errIssued"} THEN 1 ELSE 0

====
